---- MODULE Spec2Model ----
(***************************************************************************)
(* langlearn: the record layer (from_csv_fields / validate / to_dict), the *)
(* domain-model layer (construction, derived fields) and the lazy          *)
(* image-search strategy of every domain model.                            *)
(*                                                                         *)
(* Text.  A Python str is a sequence of symbols.  A symbol is either a     *)
(* whitespace character (" ", "\t") or an indivisible non-whitespace unit  *)
(* ("Haus", "masculine", "x"); Korean syllables are symbols named by their *)
(* code point ("U+CC45") and ord() is the table Ord.  The empty str is     *)
(* <<>>.  Python's None and the two bools, where they are stored next to   *)
(* strs (to_dict values, optional fields), are the one-symbol sequences    *)
(* PyNone, PyTrue, PyFalse whose symbols occur in no input str.            *)
(* Identifiers with non-ASCII letters are transliterated (praeteritum).    *)
(***************************************************************************)
EXTENDS Integers, Sequences, FiniteSets, TLC

VARIABLES
    pc,           \* "start": inputs drawn, "done": the operation has returned;
                  \* "ready" throughout the strategy machine
    target,       \* the class the operation is applied to
    input,        \* from_csv_fields: the field array; constructors: the arguments
    output,       \* the operation's result: a record / model, or the raised error
    inst,         \* strategy machine: the domain model the strategies come from
    strat,        \* ids of the callables get_image_search_strategy has returned
    calls,        \* number of ai_service.generate_image_query calls made so far
    invocations,  \* number of strategy-callable invocations so far
    last,         \* the latest invocation: callable, service response, outcome
    parsed,       \* record factory: the classes whose from_csv_fields it called
    languages,    \* LanguageRegistry._languages, a dict in insertion order
    created       \* number of language instances constructed so far

vars ==
    <<pc, target, input, output, inst, strat, calls, invocations, last, parsed,
      languages, created>>

-----------------------------------------------------------------------------
(* Python str primitives *)

Whitespace == {" ", "\t"}

PyNone == <<"<None>">>
PyTrue == <<"<True>">>
PyFalse == <<"<False>">>

RECURSIVE lstrip(_)
lstrip(s) ==
    IF s = <<>> THEN s
    ELSE IF Head(s) \in Whitespace THEN lstrip(Tail(s)) ELSE s

RECURSIVE rstrip(_)
rstrip(s) ==
    IF s = <<>> THEN s
    ELSE IF s[Len(s)] \in Whitespace THEN rstrip(SubSeq(s, 1, Len(s) - 1)) ELSE s

\* str.strip(): leading and trailing whitespace removed, the inside kept.
strip(s) == rstrip(lstrip(s))

\* the cased single characters, upper case and lower case in the same order
UpperCase ==
    <<"A", "B", "C", "D", "E", "F", "G", "H", "I", "J", "K", "L", "M", "N", "O",
      "P", "Q", "R", "S", "T", "U", "V", "W", "X", "Y", "Z", "U+00C4", "U+00D6",
      "U+00DC">>
LowerCase ==
    <<"a", "b", "c", "d", "e", "f", "g", "h", "i", "j", "k", "l", "m", "n", "o",
      "p", "q", "r", "s", "t", "u", "v", "w", "x", "y", "z", "U+00E4", "U+00F6",
      "U+00FC">>

\* str.isupper() of one character
isupper(c) == \E i \in 1..Len(UpperCase) : UpperCase[i] = c

LowerSym(c) ==
    CASE c \in {"TRUE", "True", "tRuE"} -> "true"
      [] c \in {"YES", "Yes"} -> "yes"
      [] c = "PRESENT" -> "present"
      [] isupper(c) -> LowerCase[CHOOSE i \in 1..Len(UpperCase) : UpperCase[i] = c]
      [] OTHER -> c

\* str.lower()
lower(s) == [i \in 1..Len(s) |-> LowerSym(s[i])]

\* Python truthiness of a str-or-None value: "" and None are falsy.
Truthy(s) == s # <<>> /\ s # PyNone

\* the builtin bool as it is stored in a record and in to_dict()
PyBool(b) == IF b THEN PyTrue ELSE PyFalse

-----------------------------------------------------------------------------
(* Results of an operation that may raise *)

NoRecord == [class |-> "none"]
NoError == [kind |-> "none", field |-> "", value |-> <<>>, allowed |-> {}]

Ok(rec) == [status |-> "ok", exc |-> "none", error |-> NoError, record |-> rec]

\* raise ValueError(...): the message's parts are kept apart.
\*   kind: which check failed, field: the field it names, value: the offending
\*   value interpolated in the message, allowed: the allowed set it lists.
ValueError(kind, field, value, allowed) ==
    [status |-> "error", exc |-> "ValueError",
     error |-> [kind |-> kind, field |-> field, value |-> value, allowed |-> allowed],
     record |-> NoRecord]

NotRun == [status |-> "none", exc |-> "none", error |-> NoError, record |-> NoRecord]

\* a call that returned the plain value v (a bool, a list, an instance)
Value(v) ==
    [status |-> "ok", exc |-> "none", error |-> NoError, record |-> NoRecord,
     value |-> v]

\* no method has been called yet
NoCall == [method |-> "none"]

\* fields[i] of a Python list, 0-based
At(fields, i) == fields[i + 1]

-----------------------------------------------------------------------------
(* German records *)

NounRecord_init(noun, article, english, plural, example, related) ==
    Ok([class |-> "NounRecord", noun |-> noun, article |-> article,
        english |-> english, plural |-> plural, example |-> example,
        related |-> related,
        image |-> PyNone, word_audio |-> PyNone, example_audio |-> PyNone])

NounRecord_from_csv_fields(fields) ==
    IF Len(fields) < 6
    THEN ValueError("field_count", "", <<>>, {})
    ELSE NounRecord_init(strip(At(fields, 0)), strip(At(fields, 1)),
                         strip(At(fields, 2)), strip(At(fields, 3)),
                         strip(At(fields, 4)),
                         IF Len(fields) > 5 THEN strip(At(fields, 5)) ELSE <<>>)

\* variant: the last declared field is left out of the mapping
NounRecord_to_dict_without_related(r) ==
    [noun |-> r.noun, article |-> r.article, english |-> r.english,
     plural |-> r.plural, example |-> r.example,
     image |-> r.image, word_audio |-> r.word_audio,
     example_audio |-> r.example_audio]

NounRecord_to_dict(r) ==
    [noun |-> r.noun, article |-> r.article, english |-> r.english,
     plural |-> r.plural, example |-> r.example, related |-> r.related,
     image |-> r.image, word_audio |-> r.word_audio,
     example_audio |-> r.example_audio]

NounRecord_get_field_names ==
    <<"noun", "article", "english", "plural", "example", "related">>

NounRecord_get_expected_field_count == 6

VerbRecord_get_expected_field_count == 11

VerbRecord_init(verb, english, classification, present_ich, present_du, present_er, praeteritum, auxiliary, perfect, example, separable) ==
    Ok([class |-> "VerbRecord", verb |-> verb, english |-> english,
        classification |-> classification, present_ich |-> present_ich,
        present_du |-> present_du, present_er |-> present_er,
        praeteritum |-> praeteritum, auxiliary |-> auxiliary,
        perfect |-> perfect, example |-> example, separable |-> separable,
        word_audio |-> PyNone, example_audio |-> PyNone, image |-> PyNone])

\* variant: the lower-casing is left out
VerbRecord_separable_bool_cased(field) == PyBool(strip(field) = <<"true">>)

\* separable_bool = fields[10].strip().lower() == "true"
VerbRecord_separable_bool(field) == PyBool(lower(strip(field)) = <<"true">>)

\* variant: the length test is `<`, arrays longer than the count are accepted
VerbRecord_from_csv_fields_at_least(fields) ==
    IF Len(fields) < VerbRecord_get_expected_field_count
    THEN ValueError("field_count", "", <<>>, {})
    ELSE VerbRecord_init(strip(At(fields, 0)), strip(At(fields, 1)),
                         strip(At(fields, 2)), strip(At(fields, 3)),
                         strip(At(fields, 4)), strip(At(fields, 5)),
                         strip(At(fields, 6)), strip(At(fields, 7)),
                         strip(At(fields, 8)), strip(At(fields, 9)),
                         VerbRecord_separable_bool(At(fields, 10)))

VerbRecord_from_csv_fields(fields) ==
    IF Len(fields) # VerbRecord_get_expected_field_count
    THEN ValueError("field_count", "", <<>>, {})
    ELSE VerbRecord_init(strip(At(fields, 0)), strip(At(fields, 1)),
                         strip(At(fields, 2)), strip(At(fields, 3)),
                         strip(At(fields, 4)), strip(At(fields, 5)),
                         strip(At(fields, 6)), strip(At(fields, 7)),
                         strip(At(fields, 8)), strip(At(fields, 9)),
                         VerbRecord_separable_bool(At(fields, 10)))

VerbRecord_to_dict(r) ==
    [verb |-> r.verb, english |-> r.english, classification |-> r.classification,
     present_ich |-> r.present_ich, present_du |-> r.present_du,
     present_er |-> r.present_er, praeteritum |-> r.praeteritum,
     auxiliary |-> r.auxiliary, perfect |-> r.perfect, example |-> r.example,
     separable |-> r.separable, word_audio |-> r.word_audio,
     example_audio |-> r.example_audio, image |-> r.image]

VerbRecord_get_field_names ==
    <<"verb", "english", "classification", "present_ich", "present_du",
      "present_er", "praeteritum", "auxiliary", "perfect", "example", "separable">>

AdjectiveRecord_init(word, english, example, comparative, superlative) ==
    Ok([class |-> "AdjectiveRecord", word |-> word, english |-> english,
        example |-> example, comparative |-> comparative,
        superlative |-> superlative,
        image |-> PyNone, word_audio |-> PyNone, example_audio |-> PyNone])

AdjectiveRecord_from_csv_fields(fields) ==
    IF Len(fields) < 4
    THEN ValueError("field_count", "", <<>>, {})
    ELSE AdjectiveRecord_init(strip(At(fields, 0)), strip(At(fields, 1)),
                              strip(At(fields, 2)), strip(At(fields, 3)),
                              IF Len(fields) > 4 THEN strip(At(fields, 4)) ELSE <<>>)

AdjectiveRecord_to_dict(r) ==
    [word |-> r.word, english |-> r.english, example |-> r.example,
     comparative |-> r.comparative, superlative |-> r.superlative,
     image |-> r.image, word_audio |-> r.word_audio,
     example_audio |-> r.example_audio]

AdjectiveRecord_get_field_names ==
    <<"word", "english", "example", "comparative", "superlative">>

AdjectiveRecord_get_expected_field_count == 5

AdverbRecord_init(word, english, type, example) ==
    Ok([class |-> "AdverbRecord", word |-> word, english |-> english,
        type |-> type, example |-> example,
        image |-> PyNone, word_audio |-> PyNone, example_audio |-> PyNone])

\* variant: an array that is too short is filled up with "" instead of refused
AdverbRecord_from_csv_fields_lenient(fields) ==
    LET get(i) == IF i < Len(fields) THEN strip(At(fields, i)) ELSE <<>>
    IN  AdverbRecord_init(get(0), get(1), get(2), get(3))

AdverbRecord_from_csv_fields(fields) ==
    IF Len(fields) < 4
    THEN ValueError("field_count", "", <<>>, {})
    ELSE AdverbRecord_init(strip(At(fields, 0)), strip(At(fields, 1)),
                           strip(At(fields, 2)), strip(At(fields, 3)))

AdverbRecord_to_dict(r) ==
    [word |-> r.word, english |-> r.english, type |-> r.type,
     example |-> r.example, image |-> r.image, word_audio |-> r.word_audio,
     example_audio |-> r.example_audio]

AdverbRecord_get_field_names == <<"word", "english", "type", "example">>

AdverbRecord_get_expected_field_count == 4

PhraseRecord_get_expected_field_count == 4

PhraseRecord_init(phrase, english, context, related) ==
    Ok([class |-> "PhraseRecord", phrase |-> phrase, english |-> english,
        context |-> context, related |-> related,
        phrase_audio |-> PyNone, image |-> PyNone])

PhraseRecord_from_csv_fields(fields) ==
    IF Len(fields) # PhraseRecord_get_expected_field_count
    THEN ValueError("field_count", "", <<>>, {})
    ELSE PhraseRecord_init(strip(At(fields, 0)), strip(At(fields, 1)),
                           strip(At(fields, 2)), strip(At(fields, 3)))

PhraseRecord_to_dict(r) ==
    [phrase |-> r.phrase, english |-> r.english, context |-> r.context,
     related |-> r.related, phrase_audio |-> r.phrase_audio, image |-> r.image]

PhraseRecord_get_field_names == <<"phrase", "english", "context", "related">>

PrepositionRecord_get_expected_field_count == 5

PrepositionRecord_init(preposition, english, case, example1, example2) ==
    Ok([class |-> "PrepositionRecord", preposition |-> preposition,
        english |-> english, case |-> case, example1 |-> example1,
        example2 |-> example2,
        word_audio |-> PyNone, example1_audio |-> PyNone,
        example2_audio |-> PyNone, image |-> PyNone])

PrepositionRecord_from_csv_fields(fields) ==
    IF Len(fields) # PrepositionRecord_get_expected_field_count
    THEN ValueError("field_count", "", <<>>, {})
    ELSE PrepositionRecord_init(strip(At(fields, 0)), strip(At(fields, 1)),
                                strip(At(fields, 2)), strip(At(fields, 3)),
                                strip(At(fields, 4)))

PrepositionRecord_to_dict(r) ==
    [preposition |-> r.preposition, english |-> r.english, case |-> r.case,
     example1 |-> r.example1, example2 |-> r.example2,
     word_audio |-> r.word_audio, example1_audio |-> r.example1_audio,
     example2_audio |-> r.example2_audio, image |-> r.image]

PrepositionRecord_get_field_names ==
    <<"preposition", "english", "case", "example1", "example2">>

\* a one-symbol str, and the set of one-symbol strs over a set of symbols
Str(x) == <<x>>
Strs(xs) == {<<x>> : x \in xs}

ArticleRecord_get_expected_field_count == 9

ArticleRecord_valid_genders == Strs({"masculine", "feminine", "neuter", "plural"})

ArticleRecord_validate(r) ==
    IF r.gender \notin ArticleRecord_valid_genders
    THEN ValueError("invalid_value", "gender", r.gender, ArticleRecord_valid_genders)
    ELSE Ok(r)

ArticleRecord_init(gender, nominative, accusative, dative, genitive, example_nom, example_acc, example_dat, example_gen) ==
    ArticleRecord_validate(
        [class |-> "ArticleRecord", gender |-> gender, nominative |-> nominative,
         accusative |-> accusative, dative |-> dative, genitive |-> genitive,
         example_nom |-> example_nom, example_acc |-> example_acc,
         example_dat |-> example_dat, example_gen |-> example_gen,
         article_audio |-> PyNone, example_audio |-> PyNone])

ArticleRecord_from_csv_fields(fields) ==
    IF Len(fields) # ArticleRecord_get_expected_field_count
    THEN ValueError("field_count", "", <<>>, {})
    ELSE ArticleRecord_init(strip(At(fields, 0)), strip(At(fields, 1)),
                            strip(At(fields, 2)), strip(At(fields, 3)),
                            strip(At(fields, 4)), strip(At(fields, 5)),
                            strip(At(fields, 6)), strip(At(fields, 7)),
                            strip(At(fields, 8)))

ArticleRecord_to_dict(r) ==
    [gender |-> r.gender, nominative |-> r.nominative, accusative |-> r.accusative,
     dative |-> r.dative, genitive |-> r.genitive, example_nom |-> r.example_nom,
     example_acc |-> r.example_acc, example_dat |-> r.example_dat,
     example_gen |-> r.example_gen, article_audio |-> r.article_audio,
     example_audio |-> r.example_audio]

ArticleRecord_get_field_names ==
    <<"gender", "nominative", "accusative", "dative", "genitive",
      "example_nom", "example_acc", "example_dat", "example_gen">>

UnifiedArticleRecord_get_expected_field_count == 10

UnifiedArticleRecord_valid_types == Strs({"bestimmt", "unbestimmt", "verneinend"})

UnifiedArticleRecord_valid_genders ==
    Strs({"maskulin", "feminin", "neutral", "plural"})

UnifiedArticleRecord_validate(r) ==
    IF r.artikel_typ \notin UnifiedArticleRecord_valid_types
    THEN ValueError("invalid_value", "artikel_typ", r.artikel_typ,
                    UnifiedArticleRecord_valid_types)
    ELSE IF r.geschlecht \notin UnifiedArticleRecord_valid_genders
    THEN ValueError("invalid_value", "geschlecht", r.geschlecht,
                    UnifiedArticleRecord_valid_genders)
    ELSE Ok(r)

UnifiedArticleRecord_init(artikel_typ, geschlecht, nominativ, akkusativ, dativ, genitiv, beispiel_nom, beispiel_akk, beispiel_dat, beispiel_gen) ==
    UnifiedArticleRecord_validate(
        [class |-> "UnifiedArticleRecord", artikel_typ |-> artikel_typ,
         geschlecht |-> geschlecht, nominativ |-> nominativ,
         akkusativ |-> akkusativ, dativ |-> dativ, genitiv |-> genitiv,
         beispiel_nom |-> beispiel_nom, beispiel_akk |-> beispiel_akk,
         beispiel_dat |-> beispiel_dat, beispiel_gen |-> beispiel_gen,
         article_audio |-> PyNone, example_audio |-> PyNone, image |-> PyNone])

UnifiedArticleRecord_from_csv_fields(fields) ==
    IF Len(fields) # UnifiedArticleRecord_get_expected_field_count
    THEN ValueError("field_count", "", <<>>, {})
    ELSE UnifiedArticleRecord_init(
             strip(At(fields, 0)), strip(At(fields, 1)), strip(At(fields, 2)),
             strip(At(fields, 3)), strip(At(fields, 4)), strip(At(fields, 5)),
             strip(At(fields, 6)), strip(At(fields, 7)), strip(At(fields, 8)),
             strip(At(fields, 9)))

UnifiedArticleRecord_to_dict(r) ==
    [artikel_typ |-> r.artikel_typ, geschlecht |-> r.geschlecht,
     nominativ |-> r.nominativ, akkusativ |-> r.akkusativ, dativ |-> r.dativ,
     genitiv |-> r.genitiv, beispiel_nom |-> r.beispiel_nom,
     beispiel_akk |-> r.beispiel_akk, beispiel_dat |-> r.beispiel_dat,
     beispiel_gen |-> r.beispiel_gen, article_audio |-> r.article_audio,
     example_audio |-> r.example_audio, image |-> r.image]

UnifiedArticleRecord_get_field_names ==
    <<"artikel_typ", "geschlecht", "nominativ", "akkusativ", "dativ", "genitiv",
      "beispiel_nom", "beispiel_akk", "beispiel_dat", "beispiel_gen">>

\* `not form or form.strip() == ""`
EmptyForm(form) == ~Truthy(form) \/ strip(form) = <<>>

\* the names, in order, of the forms that are empty
MissingForms(names, forms) ==
    LET idx == SelectSeq([i \in 1..Len(names) |-> i],
                         LAMBDA i : EmptyForm(forms[i]))
    IN  [k \in 1..Len(idx) |-> names[idx[k]]]

VerbImperativeRecord_validate(r) ==
    LET form_names == <<"du", "ihr", "sie", "wir">>
        missing == MissingForms(form_names, <<r.du, r.ihr, r.sie, r.wir>>)
    IN  IF missing # <<>>
        THEN ValueError("empty_form", Head(missing), <<>>, {})
        ELSE Ok([r EXCEPT !.du = strip(r.du), !.ihr = strip(r.ihr),
                          !.sie = strip(r.sie), !.wir = strip(r.wir)])

VerbImperativeRecord_init(infinitive, english, du, ihr, sie, wir, example_du, example_ihr, example_sie, word_audio, image) ==
    VerbImperativeRecord_validate(
        [class |-> "VerbImperativeRecord", infinitive |-> infinitive,
         english |-> english, du |-> du, ihr |-> ihr, sie |-> sie, wir |-> wir,
         example_du |-> example_du, example_ihr |-> example_ihr,
         example_sie |-> example_sie, word_audio |-> word_audio, image |-> image])

VerbImperativeRecord_from_csv_fields(fields) ==
    IF Len(fields) < 7
    THEN ValueError("field_count", "", <<>>, {})
    ELSE VerbImperativeRecord_init(
             strip(At(fields, 0)), strip(At(fields, 1)), strip(At(fields, 2)),
             strip(At(fields, 3)), strip(At(fields, 4)), strip(At(fields, 5)),
             IF Len(fields) > 6 THEN strip(At(fields, 6)) ELSE <<>>,
             IF Len(fields) > 7 THEN strip(At(fields, 7)) ELSE <<>>,
             IF Len(fields) > 8 THEN strip(At(fields, 8)) ELSE <<>>,
             IF Len(fields) > 9 /\ Truthy(strip(At(fields, 9)))
                 THEN strip(At(fields, 9)) ELSE PyNone,
             IF Len(fields) > 10 /\ Truthy(strip(At(fields, 10)))
                 THEN strip(At(fields, 10)) ELSE PyNone)

VerbImperativeRecord_to_dict(r) ==
    [infinitive |-> r.infinitive, english |-> r.english, du |-> r.du,
     ihr |-> r.ihr, sie |-> r.sie, wir |-> r.wir, example_du |-> r.example_du,
     example_ihr |-> r.example_ihr, example_sie |-> r.example_sie,
     word_audio |-> r.word_audio, image |-> r.image]

VerbImperativeRecord_get_field_names ==
    <<"infinitive", "english", "du", "ihr", "sie", "wir",
      "example_du", "example_ihr", "example_sie">>

VerbImperativeRecord_get_expected_field_count == 9

-----------------------------------------------------------------------------
(* VerbConjugationRecord, verb_conjugation_record.py *)

VerbConjugationRecord_valid_classifications ==
    Strs({"regelmaessig", "unregelmaessig", "gemischt", "modal"})

VerbConjugationRecord_valid_auxiliaries == Strs({"haben", "sein"})

VerbConjugationRecord_valid_tenses ==
    Strs({"present", "preterite", "perfect", "future", "subjunctive", "imperative"})

\* variant: no verb is exempt from the six-person rule
no_impersonal_verbs == {}

impersonal_verbs == Strs({"regnen", "schneien", "hageln", "donnern", "blitzen"})

person_names == <<"ich", "du", "er", "wir", "ihr", "sie">>

VerbConjugationRecord_validate_tense_completeness(r) ==
    LET tense == lower(r.tense)
        is_impersonal == r.infinitive \in impersonal_verbs
        missing == MissingForms(person_names,
                                <<r.ich, r.du, r.er, r.wir, r.ihr, r.sie>>)
    IN  IF tense \in Strs({"present", "preterite", "subjunctive"})
        THEN IF is_impersonal
             THEN IF EmptyForm(r.sie)
                  THEN ValueError("impersonal_requires_sie", "sie", r.infinitive, {})
                  ELSE Ok(r)
             ELSE IF missing # <<>>
                  THEN ValueError("requires_all_persons", "", missing, {})
                  ELSE Ok(r)
        ELSE IF tense = Str("imperative")
        THEN IF EmptyForm(r.du)
             THEN ValueError("imperative_requires", "du", <<>>, {})
             ELSE IF EmptyForm(r.ihr)
             THEN ValueError("imperative_requires", "ihr", <<>>, {})
             ELSE Ok(r)
        ELSE IF tense = Str("perfect") /\ EmptyForm(r.sie)
        THEN ValueError("perfect_requires", "sie", <<>>, {})
        ELSE Ok(r)

\* `self.x.strip() if self.x else ""`
VerbConjugationRecord_clean(form) == IF Truthy(form) THEN strip(form) ELSE <<>>

VerbConjugationRecord_validate(r) ==
    IF r.classification \notin VerbConjugationRecord_valid_classifications
    THEN ValueError("invalid_value", "classification", r.classification,
                    VerbConjugationRecord_valid_classifications)
    ELSE IF r.auxiliary \notin VerbConjugationRecord_valid_auxiliaries
    THEN ValueError("invalid_value", "auxiliary", r.auxiliary,
                    VerbConjugationRecord_valid_auxiliaries)
    ELSE IF r.tense \notin VerbConjugationRecord_valid_tenses
    THEN ValueError("invalid_value", "tense", r.tense,
                    VerbConjugationRecord_valid_tenses)
    ELSE VerbConjugationRecord_validate_tense_completeness(
             [r EXCEPT !.ich = VerbConjugationRecord_clean(r.ich),
                       !.du = VerbConjugationRecord_clean(r.du),
                       !.er = VerbConjugationRecord_clean(r.er),
                       !.wir = VerbConjugationRecord_clean(r.wir),
                       !.ihr = VerbConjugationRecord_clean(r.ihr),
                       !.sie = VerbConjugationRecord_clean(r.sie)])

\* the dataclass fields as the generated __init__ stores them
VerbConjugationFields(infinitive, english, classification, separable, auxiliary, tense, ich, du, er, wir, ihr, sie, example) ==
    [class |-> "VerbConjugationRecord", infinitive |-> infinitive,
     english |-> english, classification |-> classification,
     separable |-> separable, auxiliary |-> auxiliary, tense |-> tense,
     ich |-> ich, du |-> du, er |-> er, wir |-> wir, ihr |-> ihr, sie |-> sie,
     example |-> example,
     word_audio |-> PyNone, example_audio |-> PyNone, image |-> PyNone]

VerbConjugationRecord_init(infinitive, english, classification, separable, auxiliary, tense, ich, du, er, wir, ihr, sie, example) ==
    VerbConjugationRecord_validate(
        VerbConjugationFields(infinitive, english, classification, separable,
                              auxiliary, tense, ich, du, er, wir, ihr, sie, example))

\* safe_strip: "" for None, else field.strip()
VerbConjugationRecord_safe_strip(field) ==
    IF field = PyNone THEN <<>> ELSE strip(field)

\* safe_strip(fields[3]).lower() in ("true", "1", "yes")
VerbConjugationRecord_separable(field) ==
    PyBool(lower(VerbConjugationRecord_safe_strip(field)) \in Strs({"true", "1", "yes"}))

VerbConjugationRecord_from_csv_fields(fields) ==
    IF Len(fields) < 12
    THEN ValueError("field_count", "", <<>>, {})
    ELSE VerbConjugationRecord_init(
             VerbConjugationRecord_safe_strip(At(fields, 0)),
             VerbConjugationRecord_safe_strip(At(fields, 1)),
             VerbConjugationRecord_safe_strip(At(fields, 2)),
             VerbConjugationRecord_separable(At(fields, 3)),
             VerbConjugationRecord_safe_strip(At(fields, 4)),
             VerbConjugationRecord_safe_strip(At(fields, 5)),
             VerbConjugationRecord_safe_strip(At(fields, 6)),
             VerbConjugationRecord_safe_strip(At(fields, 7)),
             VerbConjugationRecord_safe_strip(At(fields, 8)),
             VerbConjugationRecord_safe_strip(At(fields, 9)),
             VerbConjugationRecord_safe_strip(At(fields, 10)),
             VerbConjugationRecord_safe_strip(At(fields, 11)),
             IF Len(fields) > 12
                 THEN VerbConjugationRecord_safe_strip(At(fields, 12)) ELSE <<>>)

VerbConjugationRecord_to_dict(r) ==
    [infinitive |-> r.infinitive, english |-> r.english,
     classification |-> r.classification, separable |-> r.separable,
     auxiliary |-> r.auxiliary, tense |-> r.tense, ich |-> r.ich, du |-> r.du,
     er |-> r.er, wir |-> r.wir, ihr |-> r.ihr, sie |-> r.sie,
     example |-> r.example, word_audio |-> r.word_audio,
     example_audio |-> r.example_audio, image |-> r.image]

VerbConjugationRecord_get_field_names ==
    <<"infinitive", "english", "classification", "separable", "auxiliary",
      "tense", "ich", "du", "er", "wir", "ihr", "sie", "example">>

VerbConjugationRecord_get_expected_field_count == 13

-----------------------------------------------------------------------------
(* VerbConjugationRecord, verb_conjugation_record_dataclass.py ("DC") *)

VerbConjugationRecordDC_normalize_form(form) ==
    IF form = PyNone \/ form = <<>> THEN <<>> ELSE strip(form)

\* variant: every tense requires all six persons
VerbConjugationRecordDC_validate_all_persons(r) ==
    LET missing == MissingForms(person_names,
                                <<r.ich, r.du, r.er, r.wir, r.ihr, r.sie>>)
    IN  IF missing # <<>>
        THEN ValueError("requires_all_persons", "", missing, {})
        ELSE Ok(r)

VerbConjugationRecordDC_validate_tense_completeness(r) ==
    LET tense == lower(r.tense)
        is_impersonal == r.infinitive \in impersonal_verbs
        required_forms == <<<<"ich", r.ich>>, <<"du", r.du>>, <<"er", r.er>>,
                            <<"wir", r.wir>>, <<"ihr", r.ihr>>, <<"sie", r.sie>>>>
        hits == SelectSeq(required_forms, LAMBDA nf : EmptyForm(nf[2]))
        missing == [k \in 1..Len(hits) |-> hits[k][1]]
    IN  IF tense \in Strs({"present", "preterite", "subjunctive"})
        THEN IF is_impersonal
             THEN IF EmptyForm(r.sie)
                  THEN ValueError("impersonal_requires_sie", "sie", r.infinitive, {})
                  ELSE Ok(r)
             ELSE IF missing # <<>>
                  THEN ValueError("requires_all_persons", "", missing, {})
                  ELSE Ok(r)
        ELSE IF tense = Str("imperative")
        THEN IF EmptyForm(r.du)
             THEN ValueError("imperative_requires", "du", <<>>, {})
             ELSE IF EmptyForm(r.ihr)
             THEN ValueError("imperative_requires", "ihr", <<>>, {})
             ELSE Ok(r)
        ELSE IF tense = Str("perfect") /\ EmptyForm(r.sie)
        THEN ValueError("perfect_requires", "sie", <<>>, {})
        ELSE Ok(r)

VerbConjugationRecordDC_validate(r) ==
    IF r.classification \notin VerbConjugationRecord_valid_classifications
    THEN ValueError("invalid_value", "classification", r.classification,
                    VerbConjugationRecord_valid_classifications)
    ELSE IF r.auxiliary \notin VerbConjugationRecord_valid_auxiliaries
    THEN ValueError("invalid_value", "auxiliary", r.auxiliary,
                    VerbConjugationRecord_valid_auxiliaries)
    ELSE IF r.tense \notin VerbConjugationRecord_valid_tenses
    THEN ValueError("invalid_value", "tense", r.tense,
                    VerbConjugationRecord_valid_tenses)
    ELSE VerbConjugationRecordDC_validate_tense_completeness(
             [r EXCEPT !.ich = VerbConjugationRecordDC_normalize_form(r.ich),
                       !.du = VerbConjugationRecordDC_normalize_form(r.du),
                       !.er = VerbConjugationRecordDC_normalize_form(r.er),
                       !.wir = VerbConjugationRecordDC_normalize_form(r.wir),
                       !.ihr = VerbConjugationRecordDC_normalize_form(r.ihr),
                       !.sie = VerbConjugationRecordDC_normalize_form(r.sie)])

VerbConjugationRecordDC_init(infinitive, english, classification, separable, auxiliary, tense, ich, du, er, wir, ihr, sie, example) ==
    VerbConjugationRecordDC_validate(
        VerbConjugationFields(infinitive, english, classification, separable,
                              auxiliary, tense, ich, du, er, wir, ihr, sie, example))

\* variant: the example column is required as well
VerbConjugationRecordDC_from_csv_fields_exact(fields) ==
    IF Len(fields) < 13
    THEN ValueError("field_count", "", <<>>, {})
    ELSE VerbConjugationRecordDC_init(
             VerbConjugationRecord_safe_strip(At(fields, 0)),
             VerbConjugationRecord_safe_strip(At(fields, 1)),
             VerbConjugationRecord_safe_strip(At(fields, 2)),
             VerbConjugationRecord_separable(At(fields, 3)),
             VerbConjugationRecord_safe_strip(At(fields, 4)),
             VerbConjugationRecord_safe_strip(At(fields, 5)),
             VerbConjugationRecord_safe_strip(At(fields, 6)),
             VerbConjugationRecord_safe_strip(At(fields, 7)),
             VerbConjugationRecord_safe_strip(At(fields, 8)),
             VerbConjugationRecord_safe_strip(At(fields, 9)),
             VerbConjugationRecord_safe_strip(At(fields, 10)),
             VerbConjugationRecord_safe_strip(At(fields, 11)),
             IF Len(fields) > 12
                 THEN VerbConjugationRecord_safe_strip(At(fields, 12)) ELSE <<>>)

VerbConjugationRecordDC_from_csv_fields(fields) ==
    IF Len(fields) < 12
    THEN ValueError("field_count", "", <<>>, {})
    ELSE VerbConjugationRecordDC_init(
             VerbConjugationRecord_safe_strip(At(fields, 0)),
             VerbConjugationRecord_safe_strip(At(fields, 1)),
             VerbConjugationRecord_safe_strip(At(fields, 2)),
             VerbConjugationRecord_separable(At(fields, 3)),
             VerbConjugationRecord_safe_strip(At(fields, 4)),
             VerbConjugationRecord_safe_strip(At(fields, 5)),
             VerbConjugationRecord_safe_strip(At(fields, 6)),
             VerbConjugationRecord_safe_strip(At(fields, 7)),
             VerbConjugationRecord_safe_strip(At(fields, 8)),
             VerbConjugationRecord_safe_strip(At(fields, 9)),
             VerbConjugationRecord_safe_strip(At(fields, 10)),
             VerbConjugationRecord_safe_strip(At(fields, 11)),
             IF Len(fields) > 12
                 THEN VerbConjugationRecord_safe_strip(At(fields, 12)) ELSE <<>>)

-----------------------------------------------------------------------------
(* Korean noun record *)

\* ord() of the symbols that stand for one Hangul character; every other
\* symbol is Latin text, whose characters lie below the Hangul block.
HangulOrd ==
    [c \in {"U+ABFF", "U+AC00", "U+AC01", "U+AC1C", "U+ACFC", "U+B294", "U+B97C",
            "U+C0AC", "U+C740", "U+C744", "U+C758", "U+C774", "U+CC45",
            "U+D7A3", "U+D7A4"} |->
        CASE c = "U+ABFF" -> 44031 [] c = "U+AC00" -> 44032 [] c = "U+AC01" -> 44033
          [] c = "U+AC1C" -> 44060 [] c = "U+ACFC" -> 44284 [] c = "U+B294" -> 45716
          [] c = "U+B97C" -> 47484 [] c = "U+C0AC" -> 49324 [] c = "U+C740" -> 51008
          [] c = "U+C744" -> 51012 [] c = "U+C758" -> 51032 [] c = "U+C774" -> 51060
          [] c = "U+CC45" -> 52293 [] c = "U+D7A3" -> 55203 [] c = "U+D7A4" -> 55204]

Ord(c) == IF c \in DOMAIN HangulOrd THEN HangulOrd[c] ELSE 120

\* variant: the last syllable of the block, U+D7A3, is left out of the range
KoreanNounRecord_has_final_consonant_open(hangul) ==
    IF ~Truthy(hangul) THEN FALSE
    ELSE LET char_code == Ord(hangul[Len(hangul)])
         IN  IF 44032 <= char_code /\ char_code < 55203
             THEN (char_code - 44032) % 28 # 0
             ELSE FALSE

\* 0xAC00 <= char_code <= 0xD7A3, final_consonant = (char_code - 0xAC00) % 28
KoreanNounRecord_has_final_consonant(hangul) ==
    IF ~Truthy(hangul) THEN FALSE
    ELSE LET char_code == Ord(hangul[Len(hangul)])
         IN  IF 44032 <= char_code /\ char_code <= 55203
             THEN (char_code - 44032) % 28 # 0
             ELSE FALSE

KoreanNounRecord_generate_topic_particle(hangul) ==
    hangul \o (IF KoreanNounRecord_has_final_consonant(hangul)
               THEN <<"U+C740">> ELSE <<"U+B294">>)

KoreanNounRecord_generate_subject_particle(hangul) ==
    hangul \o (IF KoreanNounRecord_has_final_consonant(hangul)
               THEN <<"U+C774">> ELSE <<"U+AC00">>)

KoreanNounRecord_generate_object_particle(hangul) ==
    hangul \o (IF KoreanNounRecord_has_final_consonant(hangul)
               THEN <<"U+C744">> ELSE <<"U+B97C">>)

KoreanNounRecord_generate_particle_forms(r) ==
    [r EXCEPT
       !.topic_particle = IF ~Truthy(r.topic_particle)
            THEN KoreanNounRecord_generate_topic_particle(r.hangul) ELSE @,
       !.subject_particle = IF ~Truthy(r.subject_particle)
            THEN KoreanNounRecord_generate_subject_particle(r.hangul) ELSE @,
       !.object_particle = IF ~Truthy(r.object_particle)
            THEN KoreanNounRecord_generate_object_particle(r.hangul) ELSE @,
       !.possessive_form = IF ~Truthy(r.possessive_form)
            THEN r.hangul \o <<"U+C758">> ELSE @]

KoreanNounRecord_valid_categories ==
    Strs({"person", "object", "place", "abstract", "animal", "food"})

KoreanNounRecord_validate_category(r) ==
    IF r.semantic_category \notin KoreanNounRecord_valid_categories
    THEN ValueError("invalid_value", "semantic_category", r.semantic_category,
                    KoreanNounRecord_valid_categories)
    ELSE Ok(r)

\* __post_init__: _generate_particle_forms, _validate_counter (accepts every
\* counter), _validate_category
KoreanNounRecord_init(hangul, romanization, english, primary_counter, topic_particle, subject_particle, object_particle, possessive_form, counter_example, honorific_form, semantic_category, usage_notes, example, example_english) ==
    KoreanNounRecord_validate_category(
        KoreanNounRecord_generate_particle_forms(
            [class |-> "KoreanNounRecord", hangul |-> hangul,
             romanization |-> romanization, english |-> english,
             primary_counter |-> primary_counter,
             topic_particle |-> topic_particle,
             subject_particle |-> subject_particle,
             object_particle |-> object_particle,
             possessive_form |-> possessive_form,
             counter_example |-> counter_example,
             honorific_form |-> honorific_form,
             semantic_category |-> semantic_category,
             usage_notes |-> usage_notes, example |-> example,
             example_english |-> example_english]))

KoreanNounRecord_get_expected_field_count == 9

KoreanNounRecord_from_csv_fields(fields0) ==
    IF Len(fields0) # KoreanNounRecord_get_expected_field_count
    THEN ValueError("field_count", "", <<>>, {})
    ELSE LET fields == [i \in 1..Len(fields0) |-> strip(fields0[i])]
         IN  KoreanNounRecord_init(
                 At(fields, 0), At(fields, 1), At(fields, 2), At(fields, 3),
                 <<>>, <<>>, <<>>, <<>>, <<>>,
                 IF Len(fields) > 7 /\ Truthy(At(fields, 7))
                     THEN At(fields, 7) ELSE PyNone,
                 At(fields, 4),
                 IF Len(fields) > 8 /\ Truthy(At(fields, 8))
                     THEN At(fields, 8) ELSE PyNone,
                 IF Len(fields) > 5 THEN At(fields, 5) ELSE <<>>,
                 IF Len(fields) > 6 THEN At(fields, 6) ELSE <<>>)

KoreanNounRecord_to_dict(r) ==
    [hangul |-> r.hangul, romanization |-> r.romanization, english |-> r.english,
     topic_particle |-> r.topic_particle, subject_particle |-> r.subject_particle,
     object_particle |-> r.object_particle, possessive_form |-> r.possessive_form,
     primary_counter |-> r.primary_counter, counter_example |-> r.counter_example,
     honorific_form |-> r.honorific_form, semantic_category |-> r.semantic_category,
     example |-> r.example, example_english |-> r.example_english,
     usage_notes |-> r.usage_notes]

KoreanNounRecord_get_field_names ==
    <<"hangul", "romanization", "english", "primary_counter", "semantic_category",
      "example", "example_english", "honorific_form", "usage_notes">>

-----------------------------------------------------------------------------
(* Russian noun record *)

\* variant: the animacy test is dropped, the accusative always follows the
\* nominative
RussianNounRecord_post_init_inanimate(r) ==
    IF ~Truthy(r.noun) \/ ~Truthy(r.english)
    THEN ValueError("required", "noun, english", <<>>, {})
    ELSE IF ~Truthy(r.gender)
    THEN ValueError("required", "gender", <<>>, {})
    ELSE LET nominative == IF ~Truthy(r.nominative) THEN r.noun ELSE r.nominative
             accusative ==
                 IF ~Truthy(r.accusative) THEN nominative ELSE r.accusative
         IN  Ok([r EXCEPT !.nominative = nominative, !.accusative = accusative])

RussianNounRecord_post_init(r) ==
    IF ~Truthy(r.noun) \/ ~Truthy(r.english)
    THEN ValueError("required", "noun, english", <<>>, {})
    ELSE IF ~Truthy(r.gender)
    THEN ValueError("required", "gender", <<>>, {})
    ELSE LET nominative == IF ~Truthy(r.nominative) THEN r.noun ELSE r.nominative
             accusative ==
                 IF ~Truthy(r.accusative)
                 THEN IF r.animacy = Str("animate")
                      THEN (IF Truthy(r.genitive) THEN r.genitive ELSE r.noun)
                      ELSE nominative
                 ELSE r.accusative
         IN  Ok([r EXCEPT !.nominative = nominative, !.accusative = accusative])

RussianNounRecord_init(noun, english, gender, nominative, genitive, example, related, animacy, accusative, instrumental, prepositional, dative, plural_nominative, plural_genitive) ==
    RussianNounRecord_post_init(
        [class |-> "RussianNounRecord", noun |-> noun, english |-> english,
         gender |-> gender, nominative |-> nominative, genitive |-> genitive,
         example |-> example, related |-> related, animacy |-> animacy,
         accusative |-> accusative, instrumental |-> instrumental,
         prepositional |-> prepositional, dative |-> dative,
         plural_nominative |-> plural_nominative,
         plural_genitive |-> plural_genitive])

\* gender_value = "masculine" unless fields[2] is one of the three genders
RussianNounRecord_gender_value(fields) ==
    IF Len(fields) > 2 /\ At(fields, 2) \in Strs({"masculine", "feminine", "neuter"})
    THEN At(fields, 2) ELSE Str("masculine")

\* animacy_value = "inanimate" unless fields[6] is one of the two animacies
RussianNounRecord_animacy_value(fields) ==
    IF Len(fields) > 6 /\ At(fields, 6) \in Strs({"animate", "inanimate"})
    THEN At(fields, 6) ELSE Str("inanimate")

\* fields[i] if len(fields) > i else ""
RussianNounRecord_optional(fields, i) ==
    IF Len(fields) > i THEN At(fields, i) ELSE <<>>

RussianNounRecord_from_csv_fields(fields) ==
    IF Len(fields) < 3
    THEN ValueError("field_count", "", <<>>, {})
    ELSE RussianNounRecord_init(
             At(fields, 0), At(fields, 1), RussianNounRecord_gender_value(fields),
             At(fields, 0),
             RussianNounRecord_optional(fields, 3),
             RussianNounRecord_optional(fields, 4),
             RussianNounRecord_optional(fields, 5),
             RussianNounRecord_animacy_value(fields),
             <<>>,
             RussianNounRecord_optional(fields, 7),
             RussianNounRecord_optional(fields, 8),
             RussianNounRecord_optional(fields, 9),
             RussianNounRecord_optional(fields, 10),
             RussianNounRecord_optional(fields, 11))

RussianNounRecord_to_dict(r) ==
    [noun |-> r.noun, english |-> r.english, example |-> r.example,
     related |-> r.related, gender |-> r.gender, animacy |-> r.animacy,
     nominative |-> r.nominative, genitive |-> r.genitive,
     accusative |-> r.accusative, instrumental |-> r.instrumental,
     prepositional |-> r.prepositional, dative |-> r.dative,
     plural_nominative |-> r.plural_nominative,
     plural_genitive |-> r.plural_genitive]

RussianNounRecord_get_field_names ==
    <<"noun", "english", "gender", "genitive", "example", "related", "animacy",
      "instrumental", "prepositional", "dative", "plural_nominative",
      "plural_genitive">>

RussianNounRecord_get_expected_field_count == 12

-----------------------------------------------------------------------------
(* Domain models: construction (__post_init__) *)

\* `value is None or (isinstance(value, str) and not value.strip())`
Blank(value) == value = PyNone \/ strip(value) = <<>>

\* the first name of `required` whose field of m is blank, as a sequence of
\* at most one name
FirstBlank(m, required) ==
    LET hits == SelectSeq(required, LAMBDA f : Blank(m[f]))
    IN  IF hits = <<>> THEN <<>> ELSE <<Head(hits)>>

\* the loop over required_fields shared by the German models
RequireFields(m, required) ==
    IF FirstBlank(m, required) # <<>>
    THEN ValueError("required", FirstBlank(m, required)[1], <<>>, {})
    ELSE Ok(m)

Noun_required_fields == <<"noun", "article", "english", "example">>

Noun_post_init(m) ==
    IF RequireFields(m, Noun_required_fields).status = "error"
    THEN RequireFields(m, Noun_required_fields)
    ELSE IF Truthy(m.article) /\ Truthy(strip(m.article))
            /\ m.article \notin Strs({"der", "die", "das"})
    THEN ValueError("invalid_value", "article", m.article,
                    Strs({"der", "die", "das"}))
    ELSE Ok(m)

Noun_init(noun, article, english, plural, example, related) ==
    Noun_post_init([class |-> "Noun", noun |-> noun, article |-> article,
                    english |-> english, plural |-> plural,
                    example |-> example, related |-> related])

Verb_required_fields ==
    <<"verb", "english", "present_ich", "present_du", "present_er", "perfect",
      "example">>

Verb_post_init(m) ==
    IF RequireFields(m, Verb_required_fields).status = "error"
    THEN RequireFields(m, Verb_required_fields)
    ELSE IF Truthy(m.auxiliary) /\ Truthy(strip(m.auxiliary))
            /\ m.auxiliary \notin Strs({"haben", "sein"})
    THEN ValueError("invalid_value", "auxiliary", m.auxiliary,
                    Strs({"haben", "sein"}))
    ELSE Ok(m)

Verb_init(verb, english, present_ich, present_du, present_er, perfect, example, classification, praeteritum, auxiliary, separable) ==
    Verb_post_init([class |-> "Verb", verb |-> verb, english |-> english,
                    present_ich |-> present_ich, present_du |-> present_du,
                    present_er |-> present_er, perfect |-> perfect,
                    example |-> example, classification |-> classification,
                    praeteritum |-> praeteritum, auxiliary |-> auxiliary,
                    separable |-> separable])

Adjective_post_init(m) == RequireFields(m, <<"word", "english", "example">>)

Adjective_init(word, english, example, comparative, superlative) ==
    Adjective_post_init([class |-> "Adjective", word |-> word,
                         english |-> english, example |-> example,
                         comparative |-> comparative,
                         superlative |-> superlative])

Adverb_post_init(m) == RequireFields(m, <<"word", "english", "example">>)

Adverb_init(word, english, type, example) ==
    Adverb_post_init([class |-> "Adverb", word |-> word, english |-> english,
                      type |-> type, example |-> example])

Negation_post_init(m) == RequireFields(m, <<"word", "english", "example">>)

Negation_init(word, english, type, example) ==
    Negation_post_init([class |-> "Negation", word |-> word,
                        english |-> english, type |-> type,
                        example |-> example])

Phrase_post_init(m) ==
    RequireFields(m, <<"phrase", "english", "context", "related">>)

Phrase_init(phrase, english, context, related) ==
    Phrase_post_init([class |-> "Phrase", phrase |-> phrase,
                      english |-> english, context |-> context,
                      related |-> related])

\* str.split(): the maximal runs of non-whitespace symbols, in order
RECURSIVE split(_)
split(s) ==
    LET t == lstrip(s)
        RECURSIVE WordLen(_)
        WordLen(u) == IF u = <<>> \/ Head(u) \in Whitespace THEN 0
                      ELSE 1 + WordLen(Tail(u))
    IN  IF t = <<>> THEN <<>>
        ELSE <<SubSeq(t, 1, WordLen(t))>>
             \o split(SubSeq(t, WordLen(t) + 1, Len(t)))

\* str.replace(old, new) for one-character old and new
replace(s, old, new) == [i \in 1..Len(s) |-> IF s[i] = old THEN new ELSE s[i]]

Preposition_valid_cases ==
    Strs({"Accusative", "Dative", "Genitive", "Akkusativ", "Dativ", "Genitiv"})

Preposition_post_init(m) ==
    LET case_parts == split(replace(m.case, "/", " "))
    IN  IF Truthy(m.case) /\ Truthy(strip(m.case))
           /\ ~(\E i \in 1..Len(case_parts) :
                    case_parts[i] \in Preposition_valid_cases)
        THEN ValueError("invalid_value", "case", m.case, {})
        ELSE Ok(m)

Preposition_init(preposition, english, case, example1, example2) ==
    Preposition_post_init(
        [class |-> "Preposition", preposition |-> preposition,
         english |-> english, case |-> case, example1 |-> example1,
         example2 |-> example2, audio1 |-> <<>>, audio2 |-> <<>>,
         image_path |-> <<>>])

Article_required_fields ==
    <<"artikel_typ", "geschlecht", "nominativ", "beispiel_nom">>

\* `not value or not isinstance(value, str) or not value.strip()`
Article_post_init(m) ==
    LET hits == SelectSeq(Article_required_fields,
                          LAMBDA f : ~Truthy(m[f]) \/ ~Truthy(strip(m[f])))
    IN  IF hits # <<>>
        THEN ValueError("required", Head(hits), <<>>, {})
        ELSE IF m.artikel_typ \notin Strs({"bestimmt", "unbestimmt", "verneinend"})
        THEN ValueError("invalid_value", "artikel_typ", <<>>,
                        Strs({"bestimmt", "unbestimmt", "verneinend"}))
        ELSE IF m.geschlecht \notin Strs({"maskulin", "feminin", "neutral", "plural"})
        THEN ValueError("invalid_value", "geschlecht", <<>>,
                        Strs({"maskulin", "feminin", "neutral", "plural"}))
        ELSE Ok(m)

Article_init(artikel_typ, geschlecht, nominativ, akkusativ, dativ, genitiv, beispiel_nom, beispiel_akk, beispiel_dat, beispiel_gen) ==
    Article_post_init(
        [class |-> "Article", artikel_typ |-> artikel_typ,
         geschlecht |-> geschlecht, nominativ |-> nominativ,
         akkusativ |-> akkusativ, dativ |-> dativ, genitiv |-> genitiv,
         beispiel_nom |-> beispiel_nom, beispiel_akk |-> beispiel_akk,
         beispiel_dat |-> beispiel_dat, beispiel_gen |-> beispiel_gen])

-----------------------------------------------------------------------------
(* Korean noun domain model *)

\* variant: every word is treated as ending in a vowel
KoreanNoun_has_final_consonant_never(hangul) == FALSE

KoreanNoun_has_final_consonant(hangul) ==
    IF ~Truthy(hangul) THEN FALSE
    ELSE LET char_code == Ord(hangul[Len(hangul)])
         IN  IF 44032 <= char_code /\ char_code <= 55203
             THEN (char_code - 44032) % 28 # 0
             ELSE FALSE

KoreanNoun_generate_topic_particle(hangul) ==
    hangul \o (IF KoreanNoun_has_final_consonant(hangul)
               THEN <<"U+C740">> ELSE <<"U+B294">>)

KoreanNoun_generate_subject_particle(hangul) ==
    hangul \o (IF KoreanNoun_has_final_consonant(hangul)
               THEN <<"U+C774">> ELSE <<"U+AC00">>)

KoreanNoun_generate_object_particle(hangul) ==
    hangul \o (IF KoreanNoun_has_final_consonant(hangul)
               THEN <<"U+C744">> ELSE <<"U+B97C">>)

\* number = "U+C138" for category "object", else "U+B2E4 U+C12F";
\* counter_example = f"{hangul} {number} {primary_counter}"
KoreanNoun_counter_example(m) ==
    IF ~Truthy(m.counter_example) /\ Truthy(m.primary_counter)
    THEN m.hangul \o <<" ">>
         \o (IF m.semantic_category = Str("object")
             THEN <<"U+C138">> ELSE <<"U+B2E4", "U+C12F">>)
         \o <<" ">> \o m.primary_counter
    ELSE m.counter_example

KoreanNoun_post_init(m) ==
    Ok([m EXCEPT
          !.topic_particle = IF ~Truthy(m.topic_particle)
               THEN KoreanNoun_generate_topic_particle(m.hangul) ELSE @,
          !.subject_particle = IF ~Truthy(m.subject_particle)
               THEN KoreanNoun_generate_subject_particle(m.hangul) ELSE @,
          !.object_particle = IF ~Truthy(m.object_particle)
               THEN KoreanNoun_generate_object_particle(m.hangul) ELSE @,
          !.possessive_form = IF ~Truthy(m.possessive_form)
               THEN m.hangul \o <<"U+C758">> ELSE @,
          !.counter_example = KoreanNoun_counter_example(m)])

KoreanNoun_init(hangul, romanization, english, topic_particle, subject_particle, object_particle, possessive_form, primary_counter, counter_example, honorific_form, semantic_category, example, example_english, usage_notes) ==
    KoreanNoun_post_init(
        [class |-> "KoreanNoun", hangul |-> hangul,
         romanization |-> romanization, english |-> english,
         topic_particle |-> topic_particle,
         subject_particle |-> subject_particle,
         object_particle |-> object_particle,
         possessive_form |-> possessive_form,
         primary_counter |-> primary_counter,
         counter_example |-> counter_example,
         honorific_form |-> honorific_form,
         semantic_category |-> semantic_category, example |-> example,
         example_english |-> example_english, usage_notes |-> usage_notes])

-----------------------------------------------------------------------------
(* Russian noun domain model *)

RussianNoun_post_init(m) ==
    LET nominative == IF ~Truthy(m.nominative) THEN m.noun ELSE m.nominative
        accusative ==
            IF ~Truthy(m.accusative)
            THEN IF m.animacy = Str("animate")
                 THEN (IF Truthy(m.genitive) THEN m.genitive ELSE m.noun)
                 ELSE nominative
            ELSE m.accusative
    IN  Ok([m EXCEPT !.nominative = nominative, !.accusative = accusative])

RussianNoun_init(noun, english, example, related, gender, animacy, nominative, genitive, accusative, instrumental, prepositional, dative, plural_nominative, plural_genitive) ==
    RussianNoun_post_init(
        [class |-> "RussianNoun", noun |-> noun, english |-> english,
         example |-> example, related |-> related, gender |-> gender,
         animacy |-> animacy, nominative |-> nominative, genitive |-> genitive,
         accusative |-> accusative, instrumental |-> instrumental,
         prepositional |-> prepositional, dative |-> dative,
         plural_nominative |-> plural_nominative,
         plural_genitive |-> plural_genitive])

-----------------------------------------------------------------------------
(* Image-search strategies of the domain models *)

\* What ai_service.generate_image_query does on one call: it returns `text`
\* or raises an exception of class `exc` whose str() is `text`.
ServiceReturns(text) == [kind |-> "return", exc |-> "none", text |-> text]
ServiceRaises(exc, text) == [kind |-> "raise", exc |-> exc, text |-> text]
NoResponse == [kind |-> "none", exc |-> "none", text |-> <<>>]

\* What the caller of the callable gets.  For an exception: its class, the
\* word its message quotes, the service's error text its message carries, and
\* whether the service or the callable created it.
StrategyReturns(value) ==
    [status |-> "ok", exc |-> "none", value |-> value, word |-> <<>>,
     message |-> <<>>, origin |-> "none"]
MediaGenerationError(word, message) ==
    [status |-> "error", exc |-> "MediaGenerationError", value |-> <<>>,
     word |-> word, message |-> message, origin |-> "callable"]
Propagates(response) ==
    [status |-> "error", exc |-> response.exc, value |-> <<>>, word |-> <<>>,
     message |-> response.text, origin |-> "service"]
NoOutcome ==
    [status |-> "none", exc |-> "none", value |-> <<>>, word |-> <<>>,
     message |-> <<>>, origin |-> "none"]

\* the try / if / raise / except body the eight German callables share
generate_search_terms(word, response) ==
    IF response.kind = "return"
    THEN IF Truthy(response.text) /\ Truthy(strip(response.text))
         THEN StrategyReturns(strip(response.text))
         ELSE MediaGenerationError(word, <<>>)
    ELSE IF response.exc = "MediaGenerationError"
    THEN Propagates(response)
    ELSE MediaGenerationError(word, response.text)

Noun_generate_search_terms(m, response) ==
    generate_search_terms(m.noun, response)
Verb_generate_search_terms(m, response) ==
    generate_search_terms(m.verb, response)
Adjective_generate_search_terms(m, response) ==
    generate_search_terms(m.word, response)
Adverb_generate_search_terms(m, response) ==
    generate_search_terms(m.word, response)
Negation_generate_search_terms(m, response) ==
    generate_search_terms(m.word, response)
Phrase_generate_search_terms(m, response) ==
    generate_search_terms(m.phrase, response)
Preposition_generate_search_terms(m, response) ==
    generate_search_terms(m.preposition, response)
Article_generate_search_terms(m, response) ==
    generate_search_terms(m.nominativ, response)

\* `return ai_service.generate_image_query(context)`, nothing around it
KoreanNoun_strategy(m, response) ==
    IF response.kind = "return" THEN StrategyReturns(response.text)
    ELSE Propagates(response)

RussianNoun_strategy(m, response) ==
    IF response.kind = "return" THEN StrategyReturns(response.text)
    ELSE Propagates(response)

\* variant: the query is generated eagerly, when the strategy is obtained
get_image_search_strategy_eager(made) == made + 1

\* the calls ai_service has received once get_image_search_strategy returns,
\* given those it had received before: the method defines the closure and
\* returns it
get_image_search_strategy(made) == made

\* the same once the callable returns or raises: one generate_image_query call
\* on every path
generate_image_query(made) == made + 1

-----------------------------------------------------------------------------
(* Linguistic checks of the German domain models.  The checks work on single  *)
(* characters: the words they are given are sequences of one-character       *)
(* symbols, the umlauts named by their code points (U+00E4 a-umlaut, U+00F6   *)
(* o-umlaut, U+00FC u-umlaut, U+00DF sharp s).                                *)

\* str.endswith(suffix), str.startswith(prefix)
endswith(s, suffix) ==
    Len(s) >= Len(suffix) /\ SubSeq(s, Len(s) - Len(suffix) + 1, Len(s)) = suffix

startswith(s, prefix) ==
    Len(s) >= Len(prefix) /\ SubSeq(s, 1, Len(prefix)) = prefix

\* str.rstrip(chars): trailing characters of the set removed
RECURSIVE rstrip_chars(_, _)
rstrip_chars(s, chars) ==
    IF s = <<>> THEN s
    ELSE IF s[Len(s)] \in chars
    THEN rstrip_chars(SubSeq(s, 1, Len(s) - 1), chars) ELSE s

\* s[start:-drop] for start >= 0 and drop > 0
slice(s, start, drop) ==
    IF start + 1 > Len(s) - drop THEN <<>>
    ELSE SubSeq(s, start + 1, Len(s) - drop)

\* a method call that has returned: the object after the call and the value
MethodReturns(self, value) == [self |-> self, value |-> value]

Adjective_irregular_comparatives ==
    (<<"g", "u", "t">> :> <<"b", "e", "s", "s", "e", "r">>)
    @@ (<<"v", "i", "e", "l">> :> <<"m", "e", "h", "r">>)
    @@ (<<"g", "e", "r", "n">> :> <<"l", "i", "e", "b", "e", "r">>)
    @@ (<<"h", "o", "c", "h">> :> <<"h", "U+00F6", "h", "e", "r">>)
    @@ (<<"n", "a", "h">> :> <<"n", "U+00E4", "h", "e", "r">>)

umlaut_pairs == <<<<"a", "U+00E4">>, <<"o", "U+00F6">>, <<"u", "U+00FC">>>>

\* base == other, or base with every occurrence of one vowel umlauted == other
bases_match(base, other) ==
    \/ base = other
    \/ \E i \in 1..Len(umlaut_pairs) :
           replace(base, umlaut_pairs[i][1], umlaut_pairs[i][2]) = other

\* variant: the irregular table is not consulted, every word goes through the
\* -er rule
Adjective_validate_comparative_regular(m) ==
    MethodReturns(m,
        IF ~endswith(m.comparative, <<"e", "r">>) THEN FALSE
        ELSE bases_match(rstrip_chars(m.word, {"e"}), slice(m.comparative, 0, 2)))

Adjective_validate_comparative(m) ==
    MethodReturns(m,
        IF m.word \in DOMAIN Adjective_irregular_comparatives
        THEN m.comparative = Adjective_irregular_comparatives[m.word]
        ELSE IF ~endswith(m.comparative, <<"e", "r">>) THEN FALSE
        ELSE bases_match(rstrip_chars(m.word, {"e"}), slice(m.comparative, 0, 2)))

Adjective_irregular_superlatives ==
    (<<"g", "u", "t">> :> <<"a", "m", " ", "b", "e", "s", "t", "e", "n">>)
    @@ (<<"v", "i", "e", "l">> :> <<"a", "m", " ", "m", "e", "i", "s", "t", "e", "n">>)
    @@ (<<"g", "e", "r", "n">> :> <<"a", "m", " ", "l", "i", "e", "b", "s", "t", "e", "n">>)
    @@ (<<"h", "o", "c", "h">> :> <<"a", "m", " ", "h", "U+00F6", "c", "h", "s", "t", "e", "n">>)
    @@ (<<"n", "a", "h">> :> <<"a", "m", " ", "n", "U+00E4", "c", "h", "s", "t", "e", "n">>)

\* variant: only the -sten ending is handled, a stem keeps its final "e"
Adjective_validate_superlative_sten(m) ==
    MethodReturns(m,
        IF ~Truthy(m.superlative) THEN TRUE
        ELSE IF m.word \in DOMAIN Adjective_irregular_superlatives
        THEN m.superlative = Adjective_irregular_superlatives[m.word]
        ELSE IF ~startswith(m.superlative, <<"a", "m", " ">>) THEN FALSE
        ELSE IF ~endswith(m.superlative, <<"s", "t", "e", "n">>) THEN FALSE
        ELSE bases_match(rstrip_chars(m.word, {"e"}), slice(m.superlative, 3, 4)))

Adjective_validate_superlative(m) ==
    MethodReturns(m,
        IF ~Truthy(m.superlative) THEN TRUE
        ELSE IF m.word \in DOMAIN Adjective_irregular_superlatives
        THEN m.superlative = Adjective_irregular_superlatives[m.word]
        ELSE IF ~startswith(m.superlative, <<"a", "m", " ">>) THEN FALSE
        ELSE IF ~endswith(m.superlative, <<"s", "t", "e", "n">>) THEN FALSE
        ELSE LET cut == slice(m.superlative, 3, 4)
                 superlative_base ==
                     IF endswith(cut, <<"e">>) THEN slice(cut, 0, 1) ELSE cut
             IN  bases_match(rstrip_chars(m.word, {"e"}), superlative_base))

-----------------------------------------------------------------------------

\* sub in s, for strs
contains(s, sub) ==
    \E i \in 0..(Len(s) - Len(sub)) : SubSeq(s, i + 1, i + Len(sub)) = sub

\* variant: a correlative needs only one token after it
Negation_position_rule_one_after(type, neg_pos, n, total_words) ==
    IF type = Str("general") /\ neg_pos = 0 THEN FALSE
    ELSE IF type = Str("general") /\ neg_pos = n - 1 THEN TRUE
    ELSE IF type = Str("general") /\ neg_pos < n - 1 THEN TRUE
    ELSE IF type = Str("article") /\ neg_pos < n - 1 THEN TRUE
    ELSE IF type = Str("pronoun") /\ (neg_pos = 0 \/ neg_pos > 0) THEN TRUE
    ELSE IF type = Str("temporal") /\ neg_pos < n - 1 THEN TRUE
    ELSE IF type = Str("spatial") /\ neg_pos > 0 THEN TRUE
    ELSE IF type = Str("correlative") /\ neg_pos < n - 1 THEN TRUE
    ELSE IF type = Str("intensifier") /\ neg_pos + total_words = n THEN TRUE
    ELSE IF type = Str("intensifier") /\ neg_pos + total_words < n THEN TRUE
    ELSE FALSE

\* the type rules of validate_position, in the order the method tests them;
\* n is len(words), total_words is len(word_parts)
Negation_position_rule(type, neg_pos, n, total_words) ==
    IF type = Str("general") /\ neg_pos = 0 THEN FALSE
    ELSE IF type = Str("general") /\ neg_pos = n - 1 THEN TRUE
    ELSE IF type = Str("general") /\ neg_pos < n - 1 THEN TRUE
    ELSE IF type = Str("article") /\ neg_pos < n - 1 THEN TRUE
    ELSE IF type = Str("pronoun") /\ (neg_pos = 0 \/ neg_pos > 0) THEN TRUE
    ELSE IF type = Str("temporal") /\ neg_pos < n - 1 THEN TRUE
    ELSE IF type = Str("spatial") /\ neg_pos > 0 THEN TRUE
    ELSE IF type = Str("correlative") /\ neg_pos < n - 2 THEN TRUE
    ELSE IF type = Str("intensifier") /\ neg_pos + total_words = n THEN TRUE
    ELSE IF type = Str("intensifier") /\ neg_pos + total_words < n THEN TRUE
    ELSE FALSE

Negation_validate_position(m) ==
    LET words == split(rstrip_chars(m.example, {".", "!", "?"}))
        words_lower == [i \in 1..Len(words) |-> lower(words[i])]
        word_parts == split(lower(m.word))
        hits == {i \in 1..Len(words_lower) : words_lower[i] = word_parts[1]}
        \* words_lower.index(word_parts[0]), 0-based
        neg_pos == (CHOOSE i \in hits : \A j \in hits : i <= j) - 1
    IN  MethodReturns(m,
            IF hits = {} THEN FALSE
            ELSE IF \E i \in 1..(Len(word_parts) - 1) :
                        \/ neg_pos + i >= Len(words_lower)
                        \/ words_lower[neg_pos + i + 1] # word_parts[i + 1]
            THEN FALSE
            ELSE Negation_position_rule(m.type, neg_pos, Len(words),
                                        Len(word_parts)))

\* variant: the example is stripped in place before it is tested, as the
\* records' validate() does with its forms
Negation_validate_example_cleaning(m) ==
    LET self == [m EXCEPT !.example = strip(@)]
        parts == split(self.word)
    IN  IF ~(\E k \in 1..Len(parts) :
                 contains(lower(self.example), lower(parts[k])))
        THEN MethodReturns(self, FALSE)
        ELSE IF ~(\E p \in {".", "!", "?"} : endswith(self.example, <<p>>))
        THEN MethodReturns(self, FALSE)
        ELSE IF ~isupper(self.example[1]) THEN MethodReturns(self, FALSE)
        ELSE Negation_validate_position(self)

Negation_validate_example(m) ==
    LET parts == split(m.word)
    IN  IF ~(\E k \in 1..Len(parts) : contains(lower(m.example), lower(parts[k])))
        THEN MethodReturns(m, FALSE)
        ELSE IF ~(\E p \in {".", "!", "?"} : endswith(m.example, <<p>>))
        THEN MethodReturns(m, FALSE)
        ELSE IF ~isupper(m.example[1]) THEN MethodReturns(m, FALSE)
        ELSE Negation_validate_position(m)

Noun_abstract_suffixes ==
    {<<"h", "e", "i", "t">>, <<"k", "e", "i", "t">>, <<"u", "n", "g">>,
     <<"i", "o", "n">>, <<"s", "c", "h", "a", "f", "t">>}

\* the set literal of is_concrete, the sixth entry spelled as the source file
\* spells it
Noun_abstract_words ==
    {<<"L", "i", "e", "b", "e">>, <<"A", "n", "g", "s", "t">>,
     <<"H", "o", "f", "f", "n", "u", "n", "g">>,
     <<"G", "l", "a", "u", "b", "e">>, <<"Z", "e", "i", "t">>,
     <<"G", "l", "U+00C3", "U+00BC", "c", "k">>, <<"M", "u", "t">>}

\* both remaining paths, the -chen / -zeug test and the default, return True
Noun_is_concrete(m) ==
    MethodReturns(m,
        IF \E suffix \in Noun_abstract_suffixes : endswith(m.noun, suffix)
        THEN FALSE
        ELSE IF m.noun \in Noun_abstract_words THEN FALSE
        ELSE TRUE)

Phrase_greeting_indicators ==
    {<<"g", "u", "t", "e", "n">>, <<"h", "a", "l", "l", "o">>, <<"h", "i">>,
     <<"g", "r", "e", "e", "t", "i", "n", "g">>}

Phrase_farewell_indicators ==
    {<<"a", "u", "f", " ", "w", "i", "e", "d", "e", "r", "s", "e", "h", "e", "n">>,
     <<"t", "s", "c", "h", "U+00FC", "s", "s">>, <<"b", "i", "s">>,
     <<"g", "o", "o", "d", "b", "y", "e">>, <<"b", "y", "e">>}

Phrase_is_greeting(m) ==
    MethodReturns(m,
        \E indicator \in Phrase_greeting_indicators :
            \/ contains(lower(m.phrase), indicator)
            \/ contains(lower(m.context), indicator))

Phrase_is_farewell(m) ==
    MethodReturns(m,
        \E indicator \in Phrase_farewell_indicators :
            \/ contains(lower(m.phrase), indicator)
            \/ contains(lower(m.context), indicator))

\* variant: the farewell keywords are tested before the greeting keywords
Phrase_get_phrase_category_farewell_first(m) ==
    MethodReturns(m,
        IF Phrase_is_farewell(m).value THEN Str("farewell")
        ELSE IF Phrase_is_greeting(m).value THEN Str("greeting")
        ELSE IF \E word \in {<<"p", "o", "l", "i", "t", "e">>,
                              <<"f", "o", "r", "m", "a", "l">>} :
                    contains(lower(m.context), word)
        THEN Str("formal")
        ELSE IF \E word \in {<<"i", "n", "f", "o", "r", "m", "a", "l">>,
                              <<"c", "a", "s", "u", "a", "l">>} :
                    contains(lower(m.context), word)
        THEN Str("informal")
        ELSE Str("general"))

Phrase_get_phrase_category(m) ==
    MethodReturns(m,
        IF Phrase_is_greeting(m).value THEN Str("greeting")
        ELSE IF Phrase_is_farewell(m).value THEN Str("farewell")
        ELSE IF \E word \in {<<"p", "o", "l", "i", "t", "e">>,
                              <<"f", "o", "r", "m", "a", "l">>} :
                    contains(lower(m.context), word)
        THEN Str("formal")
        ELSE IF \E word \in {<<"i", "n", "f", "o", "r", "m", "a", "l">>,
                              <<"c", "a", "s", "u", "a", "l">>} :
                    contains(lower(m.context), word)
        THEN Str("informal")
        ELSE Str("general"))

\* the (verb set, strategy) pairs in the order they are tried; a strategy text
\* is one symbol, named by its opening words
Verb_strategies ==
    LET motion_verbs ==
            {<<"g", "o">>, <<"c", "o", "m", "e">>, <<"w", "a", "l", "k">>,
             <<"r", "u", "n">>, <<"d", "r", "i", "v", "e">>,
             <<"t", "r", "a", "v", "e", "l">>, <<"m", "o", "v", "e">>,
             <<"l", "e", "a", "v", "e">>, <<"a", "r", "r", "i", "v", "e">>,
             <<"r", "e", "t", "u", "r", "n">>, <<"f", "o", "l", "l", "o", "w">>,
             <<"l", "e", "a", "d">>, <<"j", "u", "m", "p">>,
             <<"c", "l", "i", "m", "b">>, <<"f", "a", "l", "l">>}
        work_verbs ==
            {<<"w", "o", "r", "k">>, <<"s", "t", "u", "d", "y">>,
             <<"l", "e", "a", "r", "n">>, <<"t", "e", "a", "c", "h">>,
             <<"w", "r", "i", "t", "e">>, <<"r", "e", "a", "d">>,
             <<"c", "o", "o", "k">>, <<"c", "l", "e", "a", "n">>,
             <<"b", "u", "i", "l", "d">>, <<"m", "a", "k", "e">>,
             <<"c", "r", "e", "a", "t", "e">>, <<"f", "i", "x">>,
             <<"h", "e", "l", "p">>, <<"s", "e", "r", "v", "e">>,
             <<"s", "e", "l", "l">>, <<"b", "u", "y">>}
        communication_verbs ==
            {<<"s", "p", "e", "a", "k">>, <<"t", "a", "l", "k">>, <<"s", "a", "y">>,
             <<"t", "e", "l", "l">>, <<"a", "s", "k">>,
             <<"a", "n", "s", "w", "e", "r">>, <<"c", "a", "l", "l">>,
             <<"l", "i", "s", "t", "e", "n">>, <<"e", "x", "p", "l", "a", "i", "n">>,
             <<"d", "i", "s", "c", "u", "s", "s">>, <<"a", "r", "g", "u", "e">>,
             <<"a", "g", "r", "e", "e">>, <<"d", "i", "s", "a", "g", "r", "e", "e">>}
        state_verbs ==
            {<<"b", "e">>, <<"h", "a", "v", "e">>, <<"f", "e", "e", "l">>,
             <<"t", "h", "i", "n", "k">>, <<"b", "e", "l", "i", "e", "v", "e">>,
             <<"k", "n", "o", "w">>,
             <<"u", "n", "d", "e", "r", "s", "t", "a", "n", "d">>,
             <<"r", "e", "m", "e", "m", "b", "e", "r">>,
             <<"f", "o", "r", "g", "e", "t">>, <<"h", "o", "p", "e">>,
             <<"w", "a", "n", "t">>, <<"n", "e", "e", "d">>, <<"l", "i", "k", "e">>,
             <<"l", "o", "v", "e">>, <<"h", "a", "t", "e">>}
    IN  <<<<motion_verbs, Str("Focus on movement and direction.")>>,
          <<work_verbs,
            Str("Focus on people actively performing the task or activity.")>>,
          <<communication_verbs,
            Str("Focus on social interaction and communication.")>>,
          <<state_verbs,
            Str("Use contextual scenes that imply the mental or emotional state.")>>>>

\* variant: the last set that shares a token decides
Verb_get_action_visualization_strategy_last(m) ==
    LET parts == split(lower(m.english))
        english_words == {parts[i] : i \in 1..Len(parts)}
        hits == {k \in 1..Len(Verb_strategies) :
                    english_words \cap Verb_strategies[k][1] # {}}
    IN  MethodReturns(m,
            IF hits # {}
            THEN Verb_strategies[CHOOSE k \in hits : \A j \in hits : k >= j][2]
            ELSE Str("Focus on the physical action being performed."))

Verb_get_action_visualization_strategy(m) ==
    LET parts == split(lower(m.english))
        english_words == {parts[i] : i \in 1..Len(parts)}
        hits == {k \in 1..Len(Verb_strategies) :
                    english_words \cap Verb_strategies[k][1] # {}}
    IN  MethodReturns(m,
            IF hits # {}
            THEN Verb_strategies[CHOOSE k \in hits : \A j \in hits : k <= j][2]
            ELSE Str("Focus on the physical action being performed."))

-----------------------------------------------------------------------------

(* The callables step by step: the locals of one invocation are its frame, *)
(* `context` and `result`; the frames are indexed by the callable            *)

Noun_build_search_context(m) ==
    <<"German word: ">> \o m.noun \o <<" means ">> \o m.english
        \o <<". Generate a simple search term.">>

\* the f-string's fixed text is one symbol per line; the visual strategy is
\* named by its category, every category being a key of category_strategies
Phrase_build_search_context(m) ==
    LET category == Phrase_get_phrase_category(m).value
    IN  <<"German phrase: ">> \o m.phrase \o <<"English: ">> \o m.english
            \o <<"Category: ">> \o category \o <<"Context: ">> \o m.context
            \o <<"Related phrases: ">> \o m.related
            \o <<"Challenge: Generate search terms for images representing this phrase situation.">>
            \o <<"Visual strategy: ">> \o category
            \o <<"Generate search terms that photographers would use to tag images of people in situations where this phrase would be used.">>

NoFrame == [context |-> <<>>, result |-> NoResponse, began |-> 0]

\* `context = self._build_search_context()` in the invocation of callable s,
\* the n-th invocation begun
assign_context(frames, s, context, n) ==
    [frames EXCEPT ![s] = [context |-> context, result |-> NoResponse, began |-> n]]

\* variant: `result` is one variable of the enclosing scope, shared by the
\* callables, here the slot of the first
assign_result_shared(frames, s, response) ==
    [frames EXCEPT ![1].result = response]

\* `result = ai_service.generate_image_query(context)` in the invocation of
\* callable s; an exception the service raises is kept in the same place
assign_result(frames, s, response) ==
    [frames EXCEPT ![s].result = response]

-----------------------------------------------------------------------------

(* The language registry: _languages is a dict, here the sequence of its *)
(* (code, class) items in insertion order                                 *)

registered(langs, language_code) ==
    \E i \in 1..Len(langs) : langs[i][1] = language_code

\* cls._languages[language_code]
language_class_of(langs, language_code) ==
    langs[CHOOSE i \in 1..Len(langs) : langs[i][1] = language_code][2]

\* variant: the item is appended even when the code is already a key
LanguageRegistry_register_append(langs, language_code, language_class) ==
    Append(langs, <<language_code, language_class>>)

\* cls._languages[language_code] = language_class: a held key keeps its place
\* and takes the new class, a new key goes last
LanguageRegistry_register(langs, language_code, language_class) ==
    IF registered(langs, language_code)
    THEN [i \in 1..Len(langs) |->
             IF langs[i][1] = language_code
             THEN <<language_code, language_class>> ELSE langs[i]]
    ELSE Append(langs, <<language_code, language_class>>)

\* get(language_code) with `made` instances constructed before: the error, or
\* a new instance of the registered class from its no-argument constructor
LanguageRegistry_get(langs, language_code, made) ==
    IF ~registered(langs, language_code)
    THEN [result |-> ValueError("not_registered", "language_code",
                                Str(language_code), {}),
          made |-> made]
    ELSE [result |-> Value([class |-> language_class_of(langs, language_code),
                            id |-> made + 1]),
          made |-> made + 1]

\* list(cls._languages.keys())
LanguageRegistry_list_available(langs) == [i \in 1..Len(langs) |-> langs[i][1]]

\* cls._languages.clear()
LanguageRegistry_clear(langs) == <<>>

-----------------------------------------------------------------------------

(* Dispatch over the record classes *)

RecordClasses ==
    {"NounRecord", "VerbRecord", "AdjectiveRecord", "AdverbRecord",
     "PhraseRecord", "PrepositionRecord", "ArticleRecord",
     "UnifiedArticleRecord", "VerbImperativeRecord", "VerbConjugationRecord",
     "VerbConjugationRecordDC", "KoreanNounRecord", "RussianNounRecord"}

get_field_names(c) ==
    CASE c = "NounRecord" -> NounRecord_get_field_names
      [] c = "VerbRecord" -> VerbRecord_get_field_names
      [] c = "AdjectiveRecord" -> AdjectiveRecord_get_field_names
      [] c = "AdverbRecord" -> AdverbRecord_get_field_names
      [] c = "PhraseRecord" -> PhraseRecord_get_field_names
      [] c = "PrepositionRecord" -> PrepositionRecord_get_field_names
      [] c = "ArticleRecord" -> ArticleRecord_get_field_names
      [] c = "UnifiedArticleRecord" -> UnifiedArticleRecord_get_field_names
      [] c = "VerbImperativeRecord" -> VerbImperativeRecord_get_field_names
      [] c \in {"VerbConjugationRecord", "VerbConjugationRecordDC"} ->
             VerbConjugationRecord_get_field_names
      [] c = "KoreanNounRecord" -> KoreanNounRecord_get_field_names
      [] c = "RussianNounRecord" -> RussianNounRecord_get_field_names

get_expected_field_count(c) ==
    CASE c = "NounRecord" -> NounRecord_get_expected_field_count
      [] c = "VerbRecord" -> VerbRecord_get_expected_field_count
      [] c = "AdjectiveRecord" -> AdjectiveRecord_get_expected_field_count
      [] c = "AdverbRecord" -> AdverbRecord_get_expected_field_count
      [] c = "PhraseRecord" -> PhraseRecord_get_expected_field_count
      [] c = "PrepositionRecord" -> PrepositionRecord_get_expected_field_count
      [] c = "ArticleRecord" -> ArticleRecord_get_expected_field_count
      [] c = "UnifiedArticleRecord" -> UnifiedArticleRecord_get_expected_field_count
      [] c = "VerbImperativeRecord" -> VerbImperativeRecord_get_expected_field_count
      [] c \in {"VerbConjugationRecord", "VerbConjugationRecordDC"} ->
             VerbConjugationRecord_get_expected_field_count
      [] c = "KoreanNounRecord" -> KoreanNounRecord_get_expected_field_count
      [] c = "RussianNounRecord" -> RussianNounRecord_get_expected_field_count

\* record.to_dict(), by the record's class
to_dict(r) ==
    CASE r.class = "NounRecord" -> NounRecord_to_dict(r)
      [] r.class = "VerbRecord" -> VerbRecord_to_dict(r)
      [] r.class = "AdjectiveRecord" -> AdjectiveRecord_to_dict(r)
      [] r.class = "AdverbRecord" -> AdverbRecord_to_dict(r)
      [] r.class = "PhraseRecord" -> PhraseRecord_to_dict(r)
      [] r.class = "PrepositionRecord" -> PrepositionRecord_to_dict(r)
      [] r.class = "ArticleRecord" -> ArticleRecord_to_dict(r)
      [] r.class = "UnifiedArticleRecord" -> UnifiedArticleRecord_to_dict(r)
      [] r.class = "VerbImperativeRecord" -> VerbImperativeRecord_to_dict(r)
      [] r.class = "VerbConjugationRecord" -> VerbConjugationRecord_to_dict(r)
      [] r.class = "KoreanNounRecord" -> KoreanNounRecord_to_dict(r)
      [] r.class = "RussianNounRecord" -> RussianNounRecord_to_dict(r)

-----------------------------------------------------------------------------
(* The German record factory *)

\* cls.from_csv_fields(fields), by class, for the record classes of this
\* repository
from_csv_fields(c, fields) ==
    CASE c = "NounRecord" -> NounRecord_from_csv_fields(fields)
      [] c = "VerbRecord" -> VerbRecord_from_csv_fields(fields)
      [] c = "AdjectiveRecord" -> AdjectiveRecord_from_csv_fields(fields)
      [] c = "AdverbRecord" -> AdverbRecord_from_csv_fields(fields)
      [] c = "PhraseRecord" -> PhraseRecord_from_csv_fields(fields)
      [] c = "PrepositionRecord" -> PrepositionRecord_from_csv_fields(fields)
      [] c = "ArticleRecord" -> ArticleRecord_from_csv_fields(fields)
      [] c = "UnifiedArticleRecord" -> UnifiedArticleRecord_from_csv_fields(fields)
      [] c = "VerbImperativeRecord" -> VerbImperativeRecord_from_csv_fields(fields)
      [] c = "VerbConjugationRecord" -> VerbConjugationRecord_from_csv_fields(fields)
      [] c = "VerbConjugationRecordDC" ->
             VerbConjugationRecordDC_from_csv_fields(fields)
      [] c = "KoreanNounRecord" -> KoreanNounRecord_from_csv_fields(fields)
      [] c = "RussianNounRecord" -> RussianNounRecord_from_csv_fields(fields)

\* NegationRecord, IndefiniteArticleRecord and NegativeArticleRecord are
\* imported by the factory; what is known of their parsers is the record
\* contract: from_csv_fields either raises a ValueError (too few fields, a
\* failed validation) or returns a record of the class holding the stripped
\* fields.
ImportedRecordClasses ==
    {"NegationRecord", "IndefiniteArticleRecord", "NegativeArticleRecord"}

ImportedRecord_from_csv_fields(c, fields) ==
    {ValueError("field_count", "", <<>>, {}),
     ValueError("validation", "", <<>>, {}),
     Ok([class |-> c, fields |-> [i \in 1..Len(fields) |-> strip(fields[i])]])}

\* the outcomes cls.from_csv_fields(fields) can have
from_csv_fields_outcomes(c, fields) ==
    IF c \in ImportedRecordClasses
    THEN ImportedRecord_from_csv_fields(c, fields)
    ELSE {from_csv_fields(c, fields)}

\* cls.get_record_type().value
get_record_type(c) ==
    CASE c = "NounRecord" -> "noun"
      [] c = "VerbRecord" -> "verb"
      [] c = "AdjectiveRecord" -> "adjective"
      [] c = "AdverbRecord" -> "adverb"
      [] c = "PhraseRecord" -> "phrase"
      [] c = "PrepositionRecord" -> "preposition"
      [] c = "ArticleRecord" -> "article"
      [] c = "UnifiedArticleRecord" -> "unified_article"
      [] c = "VerbImperativeRecord" -> "verb_imperative"
      [] c \in {"VerbConjugationRecord", "VerbConjugationRecordDC"} ->
             "verb_conjugation"
      [] c = "KoreanNounRecord" -> "korean_noun"
      [] c = "RussianNounRecord" -> "noun"
      [] c = "NegationRecord" -> "negation"
      [] c = "IndefiniteArticleRecord" -> "indefinite_article"
      [] c = "NegativeArticleRecord" -> "negative_article"

\* variant: two neighbouring entries of the registry carry each other's class
GermanRecordFactory_registry_swapped ==
    <<<<"noun", "NounRecord">>, <<"adjective", "AdjectiveRecord">>,
      <<"adverb", "AdverbRecord">>, <<"negation", "NegationRecord">>,
      <<"verb", "VerbRecord">>, <<"phrase", "PhraseRecord">>,
      <<"preposition", "PrepositionRecord">>,
      <<"verb_conjugation", "VerbImperativeRecord">>,
      <<"verb_imperative", "VerbConjugationRecord">>,
      <<"article", "ArticleRecord">>,
      <<"indefinite_article", "IndefiniteArticleRecord">>,
      <<"negative_article", "NegativeArticleRecord">>,
      <<"unified_article", "UnifiedArticleRecord">>>>

\* GermanRecordFactory._registry: the (tag, record class) items in order
GermanRecordFactory_registry ==
    <<<<"noun", "NounRecord">>, <<"adjective", "AdjectiveRecord">>,
      <<"adverb", "AdverbRecord">>, <<"negation", "NegationRecord">>,
      <<"verb", "VerbRecord">>, <<"phrase", "PhraseRecord">>,
      <<"preposition", "PrepositionRecord">>,
      <<"verb_conjugation", "VerbConjugationRecord">>,
      <<"verb_imperative", "VerbImperativeRecord">>,
      <<"article", "ArticleRecord">>,
      <<"indefinite_article", "IndefiniteArticleRecord">>,
      <<"negative_article", "NegativeArticleRecord">>,
      <<"unified_article", "UnifiedArticleRecord">>>>

\* list(cls._registry.keys())
GermanRecordFactory_get_supported_types ==
    [i \in 1..Len(GermanRecordFactory_registry) |->
        GermanRecordFactory_registry[i][1]]

\* model_type in cls._registry
GermanRecordFactory_is_supported_type(model_type) ==
    \E i \in 1..Len(GermanRecordFactory_registry) :
        GermanRecordFactory_registry[i][1] = model_type

\* cls._registry[model_type]
GermanRecordFactory_record_class(model_type) ==
    LET i == CHOOSE k \in 1..Len(GermanRecordFactory_registry) :
                 GermanRecordFactory_registry[k][1] = model_type
    IN  GermanRecordFactory_registry[i][2]

\* GermanRecordFactory.create(model_type, fields): the possible pairs of the
\* value returned or exception raised and the parsers called on the way
GermanRecordFactory_create(model_type, fields) ==
    IF ~GermanRecordFactory_is_supported_type(model_type)
    THEN {[result |-> ValueError("unknown_type", "model_type", Str(model_type),
                                 {Str(GermanRecordFactory_get_supported_types[i]) :
                                     i \in 1..Len(GermanRecordFactory_registry)}),
           called |-> <<>>]}
    ELSE LET record_class == GermanRecordFactory_record_class(model_type)
         IN  {[result |-> o, called |-> <<record_class>>] :
                 o \in from_csv_fields_outcomes(record_class, fields)}

-----------------------------------------------------------------------------

(* The field arrays the CSV reader hands to from_csv_fields *)

\* how many fields beyond get_expected_field_count() an array may carry
MaxExtra == 2

\* a well-formed value for field k (1-based) of class c
BaseField(c, k) ==
    CASE c = "VerbRecord" /\ k = 11 -> Str("false")
      [] c = "ArticleRecord" /\ k = 1 -> Str("masculine")
      [] c = "UnifiedArticleRecord" /\ k = 1 -> Str("bestimmt")
      [] c = "UnifiedArticleRecord" /\ k = 2 -> Str("maskulin")
      [] c \in {"VerbConjugationRecord", "VerbConjugationRecordDC"} /\ k = 1 ->
             Str("gehen")
      [] c \in {"VerbConjugationRecord", "VerbConjugationRecordDC"} /\ k = 3 ->
             Str("modal")
      [] c \in {"VerbConjugationRecord", "VerbConjugationRecordDC"} /\ k = 4 ->
             Str("false")
      [] c \in {"VerbConjugationRecord", "VerbConjugationRecordDC"} /\ k = 5 ->
             Str("haben")
      [] c \in {"VerbConjugationRecord", "VerbConjugationRecordDC"} /\ k = 6 ->
             Str("present")
      [] c = "KoreanNounRecord" /\ k = 1 -> <<"U+C0AC", "U+ACFC">>
      [] c = "KoreanNounRecord" /\ k = 4 -> <<"U+AC1C">>
      [] c = "KoreanNounRecord" /\ k = 5 -> Str("food")
      [] c = "RussianNounRecord" /\ k = 3 -> Str("feminine")
      [] c = "RussianNounRecord" /\ k = 7 -> Str("animate")
      [] OTHER -> Str("w")

\* values every field is tried with: empty, blank, padded, inner whitespace
GenericValues == {<<>>, <<" ">>, <<" ", "x", "\t">>, <<"x", " ", "y">>}

\* further values for the fields with a vocabulary or a special reading
SpecialValues(c, k) ==
    CASE c = "VerbRecord" /\ k = 11 ->
             Strs({"true", "TRUE", "1", "yes"}) \cup {<<" ", "True", " ">>}
      [] c = "ArticleRecord" /\ k = 1 ->
             ArticleRecord_valid_genders \cup {Str("maskulin")}
      [] c = "UnifiedArticleRecord" /\ k = 1 ->
             UnifiedArticleRecord_valid_types \cup {Str("definite")}
      [] c = "UnifiedArticleRecord" /\ k = 2 ->
             UnifiedArticleRecord_valid_genders \cup {Str("masculine")}
      [] c \in {"VerbConjugationRecord", "VerbConjugationRecordDC"} /\ k = 1 ->
             Strs({"regnen"})
      [] c \in {"VerbConjugationRecord", "VerbConjugationRecordDC"} /\ k = 3 ->
             Strs({"gemischt", "regular"})
      [] c \in {"VerbConjugationRecord", "VerbConjugationRecordDC"} /\ k = 4 ->
             Strs({"true", "TRUE", "1", "yes", "YES"})
      [] c \in {"VerbConjugationRecord", "VerbConjugationRecordDC"} /\ k = 5 ->
             Strs({"sein", "werden"})
      [] c \in {"VerbConjugationRecord", "VerbConjugationRecordDC"} /\ k = 6 ->
             VerbConjugationRecord_valid_tenses \cup Strs({"PRESENT", "pluperfect"})
      [] c \in {"VerbConjugationRecord", "VerbConjugationRecordDC"}
           /\ k \in 7..12 -> {<<>>, <<" ">>}
      [] c = "VerbImperativeRecord" /\ k \in 3..6 -> {<<>>}
      [] c = "KoreanNounRecord" /\ k = 1 -> {<<"U+CC45">>, <<" ", "U+CC45", " ">>}
      [] c = "KoreanNounRecord" /\ k = 5 ->
             KoreanNounRecord_valid_categories \cup {Str("thing")}
      [] c = "RussianNounRecord" /\ k = 3 ->
             Strs({"masculine", "neuter", "plural"})
      [] c = "RussianNounRecord" /\ k = 7 -> Strs({"inanimate", "alive"})
      [] OTHER -> {}

CandidateValues(c, k) ==
    GenericValues \cup SpecialValues(c, k)
        \cup {<<" ">> \o BaseField(c, k) \o <<"\t">>}

\* a drawn array of n fields: field k is v when <<k, v>> is among the
\* replacements, else the class's well-formed value
ArrayWith(c, n, h1, h2) ==
    [k \in 1..n |-> IF k = h1[1] THEN h1[2]
                    ELSE IF k = h2[1] THEN h2[2]
                    ELSE BaseField(c, k)]

\* the arrays of n fields: every field well-formed, every field padded, one
\* field replaced by any candidate, or two fields replaced by special values
ArraysOfLen(c, n) ==
    LET any == UNION {{<<k, x>> : x \in CandidateValues(c, k)} : k \in 1..n}
        special == UNION {{<<k, x>> : x \in SpecialValues(c, k)} : k \in 1..n}
    IN  IF n = 0 THEN {<<>>}
        ELSE {ArrayWith(c, n, h, h) : h \in any}
             \cup {ArrayWith(c, n, h1, h2) : h1 \in special, h2 \in special}
             \cup {[k \in 1..n |-> BaseField(c, k)],
                   [k \in 1..n |-> <<"\t">> \o BaseField(c, k) \o <<" ">>]}

FieldArrays(c) ==
    UNION {ArraysOfLen(c, n) : n \in 0..(get_expected_field_count(c) + MaxExtra)}

-----------------------------------------------------------------------------
(* Specification SpecRecords: one from_csv_fields call on a drawn array *)

NoLast == [strategy |-> 0, response |-> NoResponse, outcome |-> NoOutcome]

\* the record factory has parsed nothing, no language is registered
RegistryIdle ==
    /\ parsed = <<>>
    /\ languages = <<>>
    /\ created = 0

StrategyIdle ==
    /\ RegistryIdle
    /\ inst = <<>>
    /\ strat = {}
    /\ calls = 0
    /\ invocations = 0
    /\ last = NoLast

InitRecords ==
    /\ pc = "start"
    /\ target \in RecordClasses
    /\ input \in FieldArrays(target)
    /\ output = NotRun
    /\ StrategyIdle

\* the pending call returns (or raises) `result`
Returns(result) ==
    /\ pc = "start"
    /\ output' = result
    /\ pc' = "done"
    /\ UNCHANGED <<target, input, inst, strat, calls, invocations, last, parsed,
                   languages, created>>

NounRecordFromCsvFields ==
    /\ target = "NounRecord"
    /\ Returns(NounRecord_from_csv_fields(input))
VerbRecordFromCsvFields ==
    /\ target = "VerbRecord"
    /\ Returns(VerbRecord_from_csv_fields(input))
AdjectiveRecordFromCsvFields ==
    /\ target = "AdjectiveRecord"
    /\ Returns(AdjectiveRecord_from_csv_fields(input))
AdverbRecordFromCsvFields ==
    /\ target = "AdverbRecord"
    /\ Returns(AdverbRecord_from_csv_fields(input))
PhraseRecordFromCsvFields ==
    /\ target = "PhraseRecord"
    /\ Returns(PhraseRecord_from_csv_fields(input))
PrepositionRecordFromCsvFields ==
    /\ target = "PrepositionRecord"
    /\ Returns(PrepositionRecord_from_csv_fields(input))
ArticleRecordFromCsvFields ==
    /\ target = "ArticleRecord"
    /\ Returns(ArticleRecord_from_csv_fields(input))
UnifiedArticleRecordFromCsvFields ==
    /\ target = "UnifiedArticleRecord"
    /\ Returns(UnifiedArticleRecord_from_csv_fields(input))
VerbImperativeRecordFromCsvFields ==
    /\ target = "VerbImperativeRecord"
    /\ Returns(VerbImperativeRecord_from_csv_fields(input))
VerbConjugationRecordFromCsvFields ==
    /\ target = "VerbConjugationRecord"
    /\ Returns(VerbConjugationRecord_from_csv_fields(input))
VerbConjugationRecordDCFromCsvFields ==
    /\ target = "VerbConjugationRecordDC"
    /\ Returns(VerbConjugationRecordDC_from_csv_fields(input))
KoreanNounRecordFromCsvFields ==
    /\ target = "KoreanNounRecord"
    /\ Returns(KoreanNounRecord_from_csv_fields(input))
RussianNounRecordFromCsvFields ==
    /\ target = "RussianNounRecord"
    /\ Returns(RussianNounRecord_from_csv_fields(input))

NextRecords ==
    \/ NounRecordFromCsvFields
    \/ VerbRecordFromCsvFields
    \/ AdjectiveRecordFromCsvFields
    \/ AdverbRecordFromCsvFields
    \/ PhraseRecordFromCsvFields
    \/ PrepositionRecordFromCsvFields
    \/ ArticleRecordFromCsvFields
    \/ UnifiedArticleRecordFromCsvFields
    \/ VerbImperativeRecordFromCsvFields
    \/ VerbConjugationRecordFromCsvFields
    \/ VerbConjugationRecordDCFromCsvFields
    \/ KoreanNounRecordFromCsvFields
    \/ RussianNounRecordFromCsvFields

SpecRecords == InitRecords /\ [][NextRecords]_vars

-----------------------------------------------------------------------------
(* Specification SpecConstruct: one constructor call on drawn arguments *)

\* a required str argument: empty, blank, or filled
Required3 == {<<>>, <<" ">>, <<"w">>}

\* the same with None, which the annotations forbid but __post_init__ tests for
Required4 == Required3 \cup {PyNone}

Optional2 == {<<>>, <<"w">>}

Forms3 == {<<>>, <<" ">>, <<" ", "f">>}

HangulWords ==
    {<<>>, <<"U+C0AC", "U+ACFC">>, <<"U+CC45">>, <<"x">>, <<"U+D7A3">>,
     <<"U+D7A4">>, <<"U+ABFF">>, <<"U+AC00">>, <<"U+AC01">>,
     <<"U+ACFC", "U+CC45">>}

VerbConjugationArgs ==
    [infinitive : Strs({"gehen", "regnen"}), classification : Strs({"modal"}),
     auxiliary : Strs({"haben"}), tense : VerbConjugationRecord_valid_tenses,
     ich : Forms3, du : Forms3, er : Forms3, wir : Forms3, ihr : Forms3,
     sie : Forms3]
    \cup
    [infinitive : impersonal_verbs \cup Strs({"Regnen", "reden"}),
     classification : Strs({"regelmaessig"}),
     auxiliary : Strs({"sein"}), tense : VerbConjugationRecord_valid_tenses,
     ich : {<<>>}, du : Optional2, er : {<<>>}, wir : {<<>>}, ihr : Optional2,
     sie : Forms3 \cup {PyNone}]
    \cup
    [infinitive : Strs({"gehen"}), classification : Strs({"modal", "regular"}),
     auxiliary : Strs({"haben", "werden"}),
     tense : Strs({"present", "PRESENT", "pluperfect"}),
     ich : {<<"f">>}, du : {<<"f">>}, er : {<<"f">>}, wir : {<<"f">>},
     ihr : {<<"f">>}, sie : {<<"f">>}]

KoreanNounArgs ==
    [hangul : HangulWords, english : Optional2,
     topic_particle : {<<>>, <<"p">>, <<" ">>, PyNone},
     subject_particle : {<<>>, <<"p">>}, object_particle : {<<>>, <<"p">>},
     possessive_form : {<<>>, <<"p">>, PyNone},
     primary_counter : {<<>>, <<"U+AC1C">>},
     counter_example : {<<>>, <<"c">>},
     semantic_category : Strs({"object", "food", "thing"})]

RussianNounArgs ==
    [noun : Required3, english : Optional2, example : Optional2,
     gender : Strs({"masculine", "plural"}) \cup {<<>>},
     animacy : Strs({"animate", "inanimate", "alive"}),
     nominative : {<<>>, <<"n">>}, genitive : {<<>>, <<"g">>},
     accusative : {<<>>, <<"a">>}]

ConstructorArgs(c) ==
    CASE c = "Noun" ->
             [noun : Required4, article : Required3 \cup Strs({"der", "die", "dem"}),
              english : Required3, plural : Optional2, example : Required3,
              related : Optional2]
      [] c = "Verb" ->
             [verb : Required4, english : Required3, present_ich : Required3,
              present_du : Required3, present_er : Required3,
              perfect : Required3, example : Required3,
              auxiliary : Strs({"haben", "werden"}) \cup {<<>>, <<" ">>}]
      [] c \in {"Adjective", "Adverb", "Negation"} ->
             [word : Required4, english : Required4, example : Required4,
              other : Optional2]
      [] c = "Phrase" ->
             [phrase : Required4, english : Required3, context : Required3,
              related : Required3]
      [] c = "Preposition" ->
             [preposition : Required3, english : Required3,
              case : {<<>>, <<" ">>, <<"Dative">>, <<"Akkusativ", "/", "Dativ">>,
                      <<"mit", " ", "Genitiv">>, <<"Nominative">>,
                      <<"Dative", "s">>, <<"dative">>},
              example1 : Required3, example2 : Optional2]
      [] c = "Article" ->
             [artikel_typ : Required4 \cup Strs({"bestimmt", "verneinend", "definite"}),
              geschlecht : Required3 \cup Strs({"maskulin", "plural", "masculine"}),
              nominativ : Required4, beispiel_nom : Required3]
      [] c \in {"KoreanNoun", "KoreanNounRecord"} -> KoreanNounArgs
      [] c \in {"RussianNoun", "RussianNounRecord"} -> RussianNounArgs
      [] c \in {"VerbConjugationRecord", "VerbConjugationRecordDC"} ->
             VerbConjugationArgs

DomainModels ==
    {"Noun", "Verb", "Adjective", "Adverb", "Negation", "Phrase", "Preposition",
     "Article", "KoreanNoun", "RussianNoun"}

ConstructedClasses ==
    DomainModels \cup {"KoreanNounRecord", "RussianNounRecord",
                       "VerbConjugationRecord", "VerbConjugationRecordDC"}

InitConstruct ==
    /\ pc = "start"
    /\ target \in ConstructedClasses
    /\ input \in ConstructorArgs(target)
    /\ output = NotRun
    /\ StrategyIdle

NounInit ==
    /\ target = "Noun"
    /\ Returns(Noun_init(input.noun, input.article, input.english, input.plural,
                         input.example, input.related))
VerbInit ==
    /\ target = "Verb"
    /\ Returns(Verb_init(input.verb, input.english, input.present_ich,
                         input.present_du, input.present_er, input.perfect,
                         input.example, <<>>, <<>>, input.auxiliary, PyFalse))
AdjectiveInit ==
    /\ target = "Adjective"
    /\ Returns(Adjective_init(input.word, input.english, input.example,
                              input.other, <<>>))
AdverbInit ==
    /\ target = "Adverb"
    /\ Returns(Adverb_init(input.word, input.english, input.other,
                           input.example))
NegationInit ==
    /\ target = "Negation"
    /\ Returns(Negation_init(input.word, input.english, input.other,
                             input.example))
PhraseInit ==
    /\ target = "Phrase"
    /\ Returns(Phrase_init(input.phrase, input.english, input.context,
                           input.related))
PrepositionInit ==
    /\ target = "Preposition"
    /\ Returns(Preposition_init(input.preposition, input.english, input.case,
                                input.example1, input.example2))
ArticleInit ==
    /\ target = "Article"
    /\ Returns(Article_init(input.artikel_typ, input.geschlecht,
                            input.nominativ, <<"w">>, <<"w">>, <<"w">>,
                            input.beispiel_nom, <<"w">>, <<"w">>, <<"w">>))
KoreanNounInit ==
    /\ target = "KoreanNoun"
    /\ Returns(KoreanNoun_init(input.hangul, <<"r">>, input.english,
                               input.topic_particle, input.subject_particle,
                               input.object_particle, input.possessive_form,
                               input.primary_counter, input.counter_example,
                               <<>>, input.semantic_category, <<>>, <<>>,
                               <<>>))
RussianNounInit ==
    /\ target = "RussianNoun"
    /\ Returns(RussianNoun_init(input.noun, input.english, input.example, <<>>,
                                input.gender, input.animacy, input.nominative,
                                input.genitive, input.accusative, <<>>, <<>>,
                                <<>>, <<>>, <<>>))
KoreanNounRecordInit ==
    /\ target = "KoreanNounRecord"
    /\ Returns(KoreanNounRecord_init(input.hangul, <<"r">>, input.english,
                                     input.primary_counter, input.topic_particle,
                                     input.subject_particle,
                                     input.object_particle,
                                     input.possessive_form,
                                     input.counter_example, PyNone,
                                     input.semantic_category, PyNone, <<>>,
                                     <<>>))
RussianNounRecordInit ==
    /\ target = "RussianNounRecord"
    /\ Returns(RussianNounRecord_init(input.noun, input.english, input.gender,
                                      input.nominative, input.genitive,
                                      input.example, <<>>, input.animacy,
                                      input.accusative, <<>>, <<>>, <<>>, <<>>,
                                      <<>>))
VerbConjugationRecordInit ==
    /\ target = "VerbConjugationRecord"
    /\ Returns(VerbConjugationRecord_init(
                   input.infinitive, <<"w">>, input.classification, PyFalse,
                   input.auxiliary, input.tense, input.ich, input.du, input.er,
                   input.wir, input.ihr, input.sie, <<"w">>))
VerbConjugationRecordDCInit ==
    /\ target = "VerbConjugationRecordDC"
    /\ Returns(VerbConjugationRecordDC_init(
                   input.infinitive, <<"w">>, input.classification, PyFalse,
                   input.auxiliary, input.tense, input.ich, input.du, input.er,
                   input.wir, input.ihr, input.sie, <<"w">>))

NextConstruct ==
    \/ NounInit
    \/ VerbInit
    \/ AdjectiveInit
    \/ AdverbInit
    \/ NegationInit
    \/ PhraseInit
    \/ PrepositionInit
    \/ ArticleInit
    \/ KoreanNounInit
    \/ RussianNounInit
    \/ KoreanNounRecordInit
    \/ RussianNounRecordInit
    \/ VerbConjugationRecordInit
    \/ VerbConjugationRecordDCInit

SpecConstruct == InitConstruct /\ [][NextConstruct]_vars

-----------------------------------------------------------------------------
(* Specification SpecStrategy: one domain model, its strategies, a service *)

\* strategies obtained from the instance, and invocations made, in one run
MaxStrategies == 2
MaxInvocations == 3

Words == {<<"Haus">>, <<"w">>}

\* the instances the strategies are taken from, as their constructors leave them
SampleInstances(c) ==
    CASE c = "Noun" ->
             {Noun_init(w, <<"das">>, <<"e">>, <<>>, <<"x">>, <<>>).record :
                  w \in Words}
      [] c = "Verb" ->
             {Verb_init(w, <<"e">>, <<"f">>, <<"f">>, <<"f">>, <<"f">>, <<"x">>,
                        <<>>, <<>>, <<"haben">>, PyFalse).record : w \in Words}
      [] c = "Adjective" ->
             {Adjective_init(w, <<"e">>, <<"x">>, <<>>, <<>>).record : w \in Words}
      [] c = "Adverb" ->
             {Adverb_init(w, <<"e">>, <<"t">>, <<"x">>).record : w \in Words}
      [] c = "Negation" ->
             {Negation_init(w, <<"e">>, <<"t">>, <<"x">>).record : w \in Words}
      [] c = "Phrase" ->
             {Phrase_init(w, <<"e">>, <<"c">>, <<"r">>).record : w \in Words}
      [] c = "Preposition" ->
             {Preposition_init(w, <<"e">>, <<"Dative">>, <<"x">>, <<"y">>).record :
                  w \in Words}
      [] c = "Article" ->
             {Article_init(<<"bestimmt">>, <<"neutral">>, w, <<"w">>, <<"w">>,
                           <<"w">>, <<"x">>, <<"x">>, <<"x">>, <<"x">>).record :
                  w \in Words}
      [] c = "KoreanNoun" ->
             {KoreanNoun_init(w, <<"r">>, <<"e">>, <<>>, <<>>, <<>>, <<>>, <<>>,
                              <<>>, <<>>, <<"object">>, <<>>, <<>>, <<>>).record :
                  w \in {<<"U+CC45">>, <<"U+C0AC", "U+ACFC">>}}
      [] c = "RussianNoun" ->
             {RussianNoun_init(w, <<"e">>, <<>>, <<>>, <<"masculine">>,
                               <<"inanimate">>, <<>>, <<>>, <<>>, <<>>, <<>>,
                               <<>>, <<>>, <<>>).record : w \in Words}

\* what the injected service may do on a call
ServiceResponses ==
    {ServiceReturns(t) :
         t \in {<<>>, <<" ">>, <<"\t", " ">>, <<"q">>, <<" ", "q", "\t">>,
                <<"a", " ", "b">>}}
    \cup {ServiceRaises(e, <<"boom">>) :
              e \in {"MediaGenerationError", "RuntimeError", "ValueError"}}

InitStrategy ==
    /\ pc = "ready"
    /\ target \in DomainModels
    /\ input = <<>>
    /\ output = NotRun
    /\ inst \in SampleInstances(target)
    /\ RegistryIdle
    /\ strat = {}
    /\ calls = 0
    /\ invocations = 0
    /\ last = NoLast

\* instance.get_image_search_strategy(ai_service): a new callable
GetImageSearchStrategy ==
    /\ pc = "ready"
    /\ Cardinality(strat) < MaxStrategies
    /\ strat' = strat \cup {Cardinality(strat) + 1}
    /\ calls' = get_image_search_strategy(calls)
    /\ UNCHANGED <<pc, target, input, output, inst, invocations, last, parsed,
                   languages, created>>

\* callable s runs, the service answers `response`, the caller gets `outcome`
Invoked(s, response, outcome) ==
    /\ pc = "ready"
    /\ invocations < MaxInvocations
    /\ invocations' = invocations + 1
    /\ calls' = generate_image_query(calls)
    /\ last' = [strategy |-> s, response |-> response, outcome |-> outcome]
    /\ UNCHANGED <<pc, target, input, output, inst, strat, parsed, languages,
                   created>>

NounGenerateSearchTerms ==
    /\ target = "Noun"
    /\ \E s \in strat, response \in ServiceResponses :
           Invoked(s, response, Noun_generate_search_terms(inst, response))
VerbGenerateSearchTerms ==
    /\ target = "Verb"
    /\ \E s \in strat, response \in ServiceResponses :
           Invoked(s, response, Verb_generate_search_terms(inst, response))
AdjectiveGenerateSearchTerms ==
    /\ target = "Adjective"
    /\ \E s \in strat, response \in ServiceResponses :
           Invoked(s, response, Adjective_generate_search_terms(inst, response))
AdverbGenerateSearchTerms ==
    /\ target = "Adverb"
    /\ \E s \in strat, response \in ServiceResponses :
           Invoked(s, response, Adverb_generate_search_terms(inst, response))
NegationGenerateSearchTerms ==
    /\ target = "Negation"
    /\ \E s \in strat, response \in ServiceResponses :
           Invoked(s, response, Negation_generate_search_terms(inst, response))
PhraseGenerateSearchTerms ==
    /\ target = "Phrase"
    /\ \E s \in strat, response \in ServiceResponses :
           Invoked(s, response, Phrase_generate_search_terms(inst, response))
PrepositionGenerateSearchTerms ==
    /\ target = "Preposition"
    /\ \E s \in strat, response \in ServiceResponses :
           Invoked(s, response, Preposition_generate_search_terms(inst, response))
ArticleGenerateSearchTerms ==
    /\ target = "Article"
    /\ \E s \in strat, response \in ServiceResponses :
           Invoked(s, response, Article_generate_search_terms(inst, response))
KoreanNounStrategy ==
    /\ target = "KoreanNoun"
    /\ \E s \in strat, response \in ServiceResponses :
           Invoked(s, response, KoreanNoun_strategy(inst, response))
RussianNounStrategy ==
    /\ target = "RussianNoun"
    /\ \E s \in strat, response \in ServiceResponses :
           Invoked(s, response, RussianNoun_strategy(inst, response))

NextStrategy ==
    \/ GetImageSearchStrategy
    \/ NounGenerateSearchTerms
    \/ VerbGenerateSearchTerms
    \/ AdjectiveGenerateSearchTerms
    \/ AdverbGenerateSearchTerms
    \/ NegationGenerateSearchTerms
    \/ PhraseGenerateSearchTerms
    \/ PrepositionGenerateSearchTerms
    \/ ArticleGenerateSearchTerms
    \/ KoreanNounStrategy
    \/ RussianNounStrategy

SpecStrategy == InitStrategy /\ [][NextStrategy]_vars

-----------------------------------------------------------------------------
(* Specification SpecInterleave: a Noun and a Phrase, one callable each, two *)
(* threads that invoke them; every step of one invocation may be followed by *)
(* a step of the other.  pc, input, output and last are indexed by the       *)
(* callable: position, frame, last outcome, last answer of the service       *)

Callables == {1, 2}

InterleavedResponses ==
    {ServiceReturns(t) : t \in {<<" ">>, <<"q">>, <<" ", "q", "\t">>}}
    \cup {ServiceRaises(e, <<"boom">>) : e \in {"MediaGenerationError", "RuntimeError"}}

InitInterleave ==
    /\ pc = [s \in Callables |-> "idle"]
    /\ target = <<"Noun", "Phrase">>
    /\ input = [s \in Callables |-> NoFrame]
    /\ output = [s \in Callables |-> NoOutcome]
    /\ inst \in {<<n, p>> : n \in SampleInstances("Noun"),
                           p \in SampleInstances("Phrase")}
    /\ RegistryIdle
    /\ strat = Callables
    /\ calls = 0
    /\ invocations = 0
    /\ last = [s \in Callables |-> NoResponse]

build_search_context(m) ==
    IF m.class = "Noun" THEN Noun_build_search_context(m)
    ELSE Phrase_build_search_context(m)

\* the callable of instance m, run start to end with the service answering
\* `response`
run_alone(m, response) ==
    IF m.class = "Noun" THEN Noun_generate_search_terms(m, response)
    ELSE Phrase_generate_search_terms(m, response)

\* callable s is invoked and builds its context from its instance
BuildSearchContext(s) ==
    /\ pc[s] = "idle"
    /\ invocations < MaxInvocations
    /\ invocations' = invocations + 1
    /\ input' = assign_context(input, s, build_search_context(inst[s]),
                               invocations + 1)
    /\ pc' = [pc EXCEPT ![s] = "built"]
    /\ UNCHANGED <<target, output, inst, strat, calls, last, parsed, languages,
                   created>>

\* the service answers the call of callable s
GenerateImageQuery(s) ==
    /\ pc[s] = "built"
    /\ \E response \in InterleavedResponses :
           /\ input' = assign_result(input, s, response)
           /\ last' = [last EXCEPT ![s] = response]
    /\ calls' = generate_image_query(calls)
    /\ pc' = [pc EXCEPT ![s] = "answered"]
    /\ UNCHANGED <<target, output, inst, strat, invocations, parsed, languages,
                   created>>

\* callable s returns or raises on what its frame holds
GenerateSearchTermsEnds(s) ==
    /\ pc[s] = "answered"
    /\ output' = [output EXCEPT ![s] = run_alone(inst[s], input[s].result)]
    /\ pc' = [pc EXCEPT ![s] = "idle"]
    /\ UNCHANGED <<target, input, inst, strat, calls, invocations, last, parsed,
                   languages, created>>

NextInterleave ==
    \/ \E s \in Callables : BuildSearchContext(s)
    \/ \E s \in Callables : GenerateImageQuery(s)
    \/ \E s \in Callables : GenerateSearchTermsEnds(s)

SpecInterleave == InitInterleave /\ [][NextInterleave]_vars

-----------------------------------------------------------------------------
(* Specification SpecFactory: one GermanRecordFactory.create call *)

\* tags that are no key of the registry: another spelling, another language's
\* record type, the empty tag
UnsupportedTags == {"unknown_type", "Noun", "nouns", "korean_noun", ""}

ModelTypes ==
    {GermanRecordFactory_get_supported_types[i] :
        i \in 1..Len(GermanRecordFactory_get_supported_types)}
    \cup UnsupportedTags

\* the arrays tried with a tag: those of the tag's record class, or a noun's
\* when the class has no declared layout here
FactoryArrays(model_type) ==
    IF GermanRecordFactory_is_supported_type(model_type)
       /\ GermanRecordFactory_record_class(model_type) \in RecordClasses
    THEN FieldArrays(GermanRecordFactory_record_class(model_type))
    ELSE FieldArrays("NounRecord")

InitFactory ==
    /\ pc = "start"
    /\ target = "GermanRecordFactory"
    /\ input \in UNION {{[model_type |-> t, fields |-> a] : a \in FactoryArrays(t)} :
                           t \in ModelTypes}
    /\ output = NotRun
    /\ StrategyIdle

GermanRecordFactoryCreate ==
    /\ pc = "start"
    /\ target = "GermanRecordFactory"
    /\ \E r \in GermanRecordFactory_create(input.model_type, input.fields) :
           /\ output' = r.result
           /\ parsed' = parsed \o r.called
    /\ pc' = "done"
    /\ UNCHANGED <<target, input, inst, strat, calls, invocations, last,
                   languages, created>>

NextFactory == GermanRecordFactoryCreate

SpecFactory == InitFactory /\ [][NextFactory]_vars

-----------------------------------------------------------------------------

(* Specification SpecChecks: the linguistic checks called, any number of *)
(* times, on one constructed German model                                *)

W_gut == <<"g", "u", "t">>
W_viel == <<"v", "i", "e", "l">>
W_gern == <<"g", "e", "r", "n">>
W_hoch == <<"h", "o", "c", "h">>
W_nah == <<"n", "a", "h">>
W_schoen == <<"s", "c", "h", "U+00F6", "n">>
W_alt == <<"a", "l", "t">>
W_muede == <<"m", "U+00FC", "d", "e">>
W_gross == <<"g", "r", "o", "U+00DF">>
W_langsam == <<"l", "a", "n", "g", "s", "a", "m">>
W_leise == <<"l", "e", "i", "s", "e">>

W_besser == <<"b", "e", "s", "s", "e", "r">>
W_mehr == <<"m", "e", "h", "r">>
W_lieber == <<"l", "i", "e", "b", "e", "r">>
W_hoeher == <<"h", "U+00F6", "h", "e", "r">>
W_naeher == <<"n", "U+00E4", "h", "e", "r">>
W_schoener == <<"s", "c", "h", "U+00F6", "n", "e", "r">>
W_aelter == <<"U+00E4", "l", "t", "e", "r">>

AdjectiveWords ==
    {W_gut, W_viel, W_gern, W_hoch, W_nah, W_schoen, W_alt, W_muede, W_gross,
     W_langsam, W_leise}

\* the table values, the regular -er forms of every word (with and without
\* umlaut), and forms no rule accepts
Comparatives ==
    {W_besser, W_mehr, W_lieber, W_hoeher, W_naeher, W_schoener, W_aelter}
    \cup {w \o <<"e", "r">> : w \in AdjectiveWords}
    \cup {replace(w, "o", "U+00F6") \o <<"e", "r">> : w \in {W_hoch, W_gross}}
    \cup {replace(w, "u", "U+00FC") \o <<"e", "r">> : w \in {W_gut}}
    \cup {<<"m", "U+00FC", "d", "e", "r">>, <<>>, <<"e", "r">>,
          <<" ">> \o W_besser, <<"B", "e", "s", "s", "e", "r">>,
          <<"a", "l", "t", "e">>,
          <<"l", "U+00E4", "n", "g", "s", "a", "m", "e", "r">>,
          <<"l", "a", "n", "g", "s", "U+00E4", "m", "e", "r">>,
          <<"l", "U+00E4", "n", "g", "s", "U+00E4", "m", "e", "r">>}

Superlatives ==
    {<<>>, <<"a", "m", " ", "b", "e", "s", "t", "e", "n">>,
     <<"a", "m", " ", "g", "u", "t", "s", "t", "e", "n">>,
     <<"a", "m", " ">> \o W_schoen \o <<"s", "t", "e", "n">>,
     <<"a", "m", " ", "U+00E4", "l", "t", "e", "s", "t", "e", "n">>,
     <<"a", "m", " ", "s", "t", "e", "n">>,
     <<"U+00E4", "l", "t", "e", "s", "t", "e", "n">>,
     <<"a", "m", " ", "a", "l", "t", "e", "s", "t">>,
     <<"a", "m", " ", "l", "a", "n", "g", "s", "a", "m", "s", "t", "e", "n">>,
     <<"a", "m", " ", "l", "U+00E4", "n", "g", "s", "U+00E4", "m", "s", "t", "e", "n">>,
     <<"a", "m", " ", "l", "U+00E4", "n", "g", "s", "a", "m", "s", "t", "e", "n">>,
     <<"a", "m", " ", "l", "e", "i", "s", "e", "s", "t", "e", "n">>,
     <<"a", "m", " ", "l", "e", "i", "s", "t", "e", "n">>,
     <<"a", "m", " ", "U+00E4", "l", "t", "e", "e", "s", "t", "e", "n">>}

NegationWords ==
    {<<"n", "i", "c", "h", "t">>, <<"k", "e", "i", "n">>, <<"n", "i", "e">>,
     <<"n", "i", "r", "g", "e", "n", "d", "s">>,
     <<"g", "a", "r", " ", "n", "i", "c", "h", "t">>,
     <<"n", "i", "e", "m", "a", "n", "d">>, <<"N", "i", "c", "h", "t">>,
     <<"w", "e", "d", "e", "r">>}

NegationTypes ==
    {Str("general"), Str("article"), Str("pronoun"), Str("temporal"),
     Str("spatial"), Str("correlative"), Str("intensifier")}

\* sentences with the negation first, in the middle, last and absent, with and
\* without capital and end punctuation, and one with surrounding blanks
NegationExamples ==
    {<<"I", "c", "h", " ", "g", "e", "h", "e", " ", "n", "i", "c", "h", "t", ".">>,
     <<"N", "i", "c", "h", "t", " ", "i", "c", "h", ".">>,
     <<"i", "c", "h", " ", "g", "e", "h", "e", " ", "n", "i", "c", "h", "t", ".">>,
     <<"I", "c", "h", " ", "g", "e", "h", "e", " ", "n", "i", "c", "h", "t">>,
     <<"I", "c", "h", " ", "h", "a", "b", "e", " ", "k", "e", "i", "n", " ", "G", "e", "l", "d", ".">>,
     <<"D", "a", "s", " ", "i", "s", "t", " ", "g", "a", "r", " ", "n", "i", "c", "h", "t", " ", "g", "u", "t", ".">>,
     <<"I", "c", "h", " ", "g", "e", "h", "e", " ", "g", "a", "r", ".">>,
     <<"G", "a", "r", " ", "n", "i", "c", "h", "t", "!">>,
     <<"N", "i", "e", " ", "w", "i", "e", "d", "e", "r", "!">>,
     <<"N", "i", "e", "m", "a", "n", "d", " ", "k", "o", "m", "m", "t", ".">>,
     <<"I", "c", "h", " ", "g", "e", "h", "e", " ", "n", "i", "r", "g", "e", "n", "d", "s", " ", "h", "i", "n", "?">>,
     <<" ", "I", "c", "h", " ", "g", "e", "h", "e", " ", "n", "i", "c", "h", "t", ".", " ">>,
     <<"I", "c", "h", " ", "g", "e", "h", "e", " ", "n", "i", "e", ".">>,
     <<"W", "e", "d", "e", "r", " ", "e", "r", " ", "n", "o", "c", "h", " ", "s", "i", "e", " ", "k", "o", "m", "m", "t", ".">>,
     <<"G", "a", "r", " ", "i", "s", "t", " ", "e", "s", " ", "g", "a", "r", " ", "n", "i", "c", "h", "t", " ", "g", "u", "t", ".">>,
     <<"I", "c", "h", " ", "g", "e", "h", "e", " ", "n", "i", "c", "h", "t", ",", " ", "n", "i", "c", "h", "t", " ", "w", "a", "h", "r", "?">>}

NounWords ==
    {<<"H", "u", "n", "d">>, <<"F", "r", "e", "i", "h", "e", "i", "t">>,
     <<"Z", "e", "i", "t", "u", "n", "g">>, <<"L", "i", "e", "b", "e">>,
     <<"G", "l", "U+00FC", "c", "k">>,
     <<"G", "l", "U+00C3", "U+00BC", "c", "k">>, <<"M", "u", "t">>,
     <<"M", "u", "t", "t", "e", "r">>,
     <<"M", "U+00E4", "d", "c", "h", "e", "n">>,
     <<"S", "t", "a", "t", "i", "o", "n">>, <<"u", "n", "g">>,
     <<"F", "r", "e", "u", "n", "d", "s", "c", "h", "a", "f", "t">>,
     <<"S", "a", "u", "b", "e", "r", "k", "e", "i", "t">>,
     <<"l", "i", "e", "b", "e">>}

PhraseTexts ==
    {<<"G", "u", "t", "e", "n", " ", "T", "a", "g">>,
     <<"H", "a", "l", "l", "o">>,
     <<"A", "u", "f", " ", "W", "i", "e", "d", "e", "r", "s", "e", "h", "e", "n">>,
     <<"T", "s", "c", "h", "U+00FC", "s", "s">>,
     <<"B", "i", "s", " ", "b", "a", "l", "d">>, <<"D", "a", "n", "k", "e">>,
     <<"E", "n", "t", "s", "c", "h", "u", "l", "d", "i", "g", "u", "n", "g">>,
     <<"W", "i", "e", " ", "b", "i", "t", "t", "e">>}

PhraseContexts ==
    {<<"g", "r", "e", "e", "t", "i", "n", "g">>,
     <<"s", "a", "y", "i", "n", "g", " ", "g", "o", "o", "d", "b", "y", "e">>,
     <<"p", "o", "l", "i", "t", "e", " ", "r", "e", "q", "u", "e", "s", "t">>,
     <<"F", "o", "r", "m", "a", "l", " ", "a", "p", "o", "l", "o", "g", "y">>,
     <<"i", "n", "f", "o", "r", "m", "a", "l", " ", "t", "h", "a", "n", "k", "s">>,
     <<"c", "a", "s", "u", "a", "l", " ", "c", "h", "a", "t">>,
     <<"s", "h", "o", "p", "p", "i", "n", "g">>,
     <<"B", "y", "e", " ", "f", "o", "r", " ", "n", "o", "w">>}

VerbEnglish ==
    {<<"t", "o", " ", "g", "o">>, <<"t", "o", " ", "w", "o", "r", "k">>,
     <<"t", "o", " ", "s", "p", "e", "a", "k">>, <<"t", "o", " ", "b", "e">>,
     <<"t", "o", " ", "e", "a", "t">>,
     <<"t", "o", " ", "w", "a", "l", "k", " ", "a", "n", "d", " ", "t", "a", "l", "k">>,
     <<"t", "o", " ", "h", "a", "v", "e", " ", "t", "o", " ", "w", "o", "r", "k">>,
     <<"G", "o">>, <<"g", "o", "i", "n", "g">>,
     <<"t", "o", " ", "b", "e", " ", "a", "b", "l", "e", " ", "t", "o", " ", "g", "o">>,
     <<"s", "l", "e", "e", "p">>}

Constructed(results) == {r.record : r \in {x \in results : x.status = "ok"}}

CheckedInstances(c) ==
    CASE c = "Adjective" ->
             {Adjective_init(w, <<"e">>, <<"x">>, k, s).record :
                  w \in AdjectiveWords, k \in Comparatives, s \in Superlatives}
      [] c = "Negation" ->
             Constructed({Negation_init(w, <<"e">>, t, x) :
                  w \in NegationWords, t \in NegationTypes,
                  x \in NegationExamples})
      [] c = "Noun" ->
             Constructed({Noun_init(n, Str("die"), <<"e">>, <<"p">>,
                                    <<"x">>, r) :
                  n \in NounWords, r \in {<<>>, <<"r">>}})
      [] c = "Phrase" ->
             Constructed({Phrase_init(p, <<"e">>, k, <<"r">>) :
                  p \in PhraseTexts, k \in PhraseContexts})
      [] c = "Verb" ->
             Constructed({Verb_init(<<"v">>, e, <<"i">>, <<"d">>, <<"r">>,
                                    <<"p">>, <<"x">>, <<>>, <<>>, <<>>, s) :
                  e \in VerbEnglish, s \in {PyTrue, PyFalse}})

CheckedClasses == {"Adjective", "Negation", "Noun", "Phrase", "Verb"}

InitChecks ==
    /\ pc = "ready"
    /\ target \in CheckedClasses
    /\ input = NoCall
    /\ output = NotRun
    /\ inst \in CheckedInstances(target)
    /\ RegistryIdle
    /\ strat = {}
    /\ calls = 0
    /\ invocations = 0
    /\ last = NoLast

\* inst.method() has returned r.value and left the object as r.self
Called(method, r) ==
    /\ pc = "ready"
    /\ input' = [method |-> method]
    /\ output' = Value(r.value)
    /\ inst' = r.self
    /\ UNCHANGED <<pc, target, strat, calls, invocations, last, parsed,
                   languages, created>>

AdjectiveValidateComparative ==
    /\ target = "Adjective"
    /\ Called("validate_comparative", Adjective_validate_comparative(inst))
AdjectiveValidateSuperlative ==
    /\ target = "Adjective"
    /\ Called("validate_superlative", Adjective_validate_superlative(inst))

NegationValidateExample ==
    /\ target = "Negation"
    /\ Called("validate_example", Negation_validate_example(inst))
NegationValidatePosition ==
    /\ target = "Negation"
    /\ Called("validate_position", Negation_validate_position(inst))
NounIsConcrete ==
    /\ target = "Noun"
    /\ Called("is_concrete", Noun_is_concrete(inst))
PhraseIsGreeting ==
    /\ target = "Phrase"
    /\ Called("is_greeting", Phrase_is_greeting(inst))
PhraseIsFarewell ==
    /\ target = "Phrase"
    /\ Called("is_farewell", Phrase_is_farewell(inst))
PhraseGetPhraseCategory ==
    /\ target = "Phrase"
    /\ Called("get_phrase_category", Phrase_get_phrase_category(inst))
VerbGetActionVisualizationStrategy ==
    /\ target = "Verb"
    /\ Called("_get_action_visualization_strategy",
              Verb_get_action_visualization_strategy(inst))

NextChecks ==
    \/ AdjectiveValidateComparative
    \/ AdjectiveValidateSuperlative
    \/ NegationValidateExample
    \/ NegationValidatePosition
    \/ NounIsConcrete
    \/ PhraseIsGreeting
    \/ PhraseIsFarewell
    \/ PhraseGetPhraseCategory
    \/ VerbGetActionVisualizationStrategy

SpecChecks == InitChecks /\ [][NextChecks]_vars

-----------------------------------------------------------------------------
(* SpecCoda: the coda test of the Korean record and of the Korean model on
   every string of at most MaxHangul characters *)

MaxHangul == 2

\* the syllables with a known code point, and a character outside the block
HangulChars == DOMAIN HangulOrd \cup {"x"}

RECURSIVE HangulStrings(_)
HangulStrings(n) ==
    IF n = 0 THEN {<<>>}
    ELSE HangulStrings(n - 1)
         \cup {Append(s, c) : s \in {t \in HangulStrings(n - 1) : Len(t) = n - 1},
                              c \in HangulChars}

InitCoda ==
    /\ pc = "ready"
    /\ target \in {"KoreanNounRecord", "KoreanNoun"}
    /\ input = NoCall
    /\ output = NotRun
    /\ inst \in [class : {target}, hangul : HangulStrings(MaxHangul)]
    /\ RegistryIdle
    /\ strat = {}
    /\ calls = 0
    /\ invocations = 0
    /\ last = NoLast

KoreanNounRecordHasFinalConsonant ==
    /\ target = "KoreanNounRecord"
    /\ Called("_has_final_consonant",
              MethodReturns(inst, KoreanNounRecord_has_final_consonant(inst.hangul)))
KoreanNounHasFinalConsonant ==
    /\ target = "KoreanNoun"
    /\ Called("_has_final_consonant",
              MethodReturns(inst, KoreanNoun_has_final_consonant(inst.hangul)))

NextCoda ==
    \/ KoreanNounRecordHasFinalConsonant
    \/ KoreanNounHasFinalConsonant

SpecCoda == InitCoda /\ [][NextCoda]_vars

-----------------------------------------------------------------------------

(* Specification SpecRegistry: register, get, list_available and clear, in *)
(* any order                                                               *)

\* how many language instances get() may construct in one behaviour
MaxInstances == 3

LanguageCodes == {"de", "ko", "ru"}
LanguageClasses == {"GermanLanguage", "FakeLang"}

InitRegistry ==
    /\ pc = "ready"
    /\ target = "LanguageRegistry"
    /\ input = NoCall
    /\ output = NotRun
    /\ StrategyIdle

RegistryFrame == UNCHANGED <<pc, target, inst, strat, calls, invocations, last, parsed>>

LanguageRegistryRegister ==
    /\ target = "LanguageRegistry"
    /\ \E code \in LanguageCodes, cls \in LanguageClasses :
           /\ input' = [method |-> "register", language_code |-> code,
                        language_class |-> cls]
           /\ languages' = LanguageRegistry_register(languages, code, cls)
    /\ output' = Value(PyNone)
    /\ UNCHANGED created
    /\ RegistryFrame

LanguageRegistryGet ==
    /\ target = "LanguageRegistry"
    /\ created < MaxInstances
    /\ \E code \in LanguageCodes :
           LET r == LanguageRegistry_get(languages, code, created)
           IN  /\ input' = [method |-> "get", language_code |-> code]
               /\ output' = r.result
               /\ created' = r.made
    /\ UNCHANGED languages
    /\ RegistryFrame

LanguageRegistryListAvailable ==
    /\ target = "LanguageRegistry"
    /\ input' = [method |-> "list_available"]
    /\ output' = Value(LanguageRegistry_list_available(languages))
    /\ UNCHANGED <<languages, created>>
    /\ RegistryFrame

LanguageRegistryClear ==
    /\ target = "LanguageRegistry"
    /\ input' = [method |-> "clear"]
    /\ languages' = LanguageRegistry_clear(languages)
    /\ output' = Value(PyNone)
    /\ UNCHANGED created
    /\ RegistryFrame

NextRegistry ==
    \/ LanguageRegistryRegister
    \/ LanguageRegistryGet
    \/ LanguageRegistryListAvailable
    \/ LanguageRegistryClear

SpecRegistry == InitRegistry /\ [][NextRegistry]_vars

-----------------------------------------------------------------------------

(* Claims on SpecRecords *)

Returned == pc = "done" /\ output.status = "ok"
Raised == pc = "done" /\ output.status = "error"

\* a to_dict() value that is a str, not None or a bool
IsText(v) == v \notin {PyNone, PyTrue, PyFalse}

\* C1: an accepted field array of the declared length round-trips: to_dict()
\* has every name of get_field_names() as a key, bound to the corresponding
\* input field with its surrounding whitespace removed.  (Read in the code's
\* favour: a value the record stores as a bool or as None is not compared.)
C1_RoundTrip ==
    (Returned /\ Len(input) = get_expected_field_count(target)) =>
        LET names == get_field_names(target)
            d == to_dict(output.record)
        IN  \A i \in 1..Len(names) :
                /\ names[i] \in DOMAIN d
                /\ IsText(d[names[i]]) => d[names[i]] = strip(input[i])

\* the minimum number of fields each variant requires
MinimumRequired(c) ==
    CASE c = "NounRecord" -> 6
      [] c = "VerbRecord" -> 11
      [] c = "AdjectiveRecord" -> 4
      [] c = "AdverbRecord" -> 4
      [] c = "PhraseRecord" -> 4
      [] c = "PrepositionRecord" -> 5
      [] c = "ArticleRecord" -> 9
      [] c = "UnifiedArticleRecord" -> 10
      [] c = "VerbImperativeRecord" -> 7
      [] c \in {"VerbConjugationRecord", "VerbConjugationRecordDC"} -> 12
      [] c = "KoreanNounRecord" -> 9
      [] c = "RussianNounRecord" -> 3

\* C2: a field array shorter than the variant's minimum required count makes
\* from_csv_fields fail with a validation error; no record is returned.
C2_ShortArrayFails ==
    (pc = "done" /\ Len(input) < MinimumRequired(target)) =>
        /\ output.status = "error"
        /\ output.exc = "ValueError"
        /\ output.record = NoRecord

\* witness of C2: a call on an array one field short of the minimum has failed
C2_Witness ==
    /\ Raised
    /\ Len(input) = MinimumRequired(target) - 1
    /\ target = "RussianNounRecord"

\* the closed-vocabulary fields of a variant: <<position, allowed set>>
ClosedFields(c) ==
    CASE c = "ArticleRecord" ->
             {<<1, Strs({"masculine", "feminine", "neuter", "plural"})>>}
      [] c = "UnifiedArticleRecord" ->
             {<<1, Strs({"bestimmt", "unbestimmt", "verneinend"})>>,
              <<2, Strs({"maskulin", "feminin", "neutral", "plural"})>>}
      [] c \in {"VerbConjugationRecord", "VerbConjugationRecordDC"} ->
             {<<3, Strs({"regelmaessig", "unregelmaessig", "gemischt", "modal"})>>,
              <<5, Strs({"haben", "sein"})>>,
              <<6, Strs({"present", "preterite", "perfect", "future",
                         "subjunctive", "imperative"})>>}
      [] c = "KoreanNounRecord" ->
             {<<5, Strs({"person", "object", "place", "abstract", "animal",
                         "food"})>>}
      [] c = "RussianNounRecord" ->
             {<<3, Strs({"masculine", "feminine", "neuter"})>>,
              <<7, Strs({"animate", "inanimate"})>>}
      [] OTHER -> {}

\* the closed-vocabulary fields whose supplied value is outside the allowed set
Offending(c, fields) ==
    {f \in ClosedFields(c) : f[1] <= Len(fields) /\ strip(fields[f[1]]) \notin f[2]}

\* C7: building a record from fields whose value for a closed-vocabulary
\* field is outside the allowed set fails with an error that names the
\* allowed set; the value is never replaced by a default.
C7_ClosedVocabularyRejected ==
    (pc = "done" /\ Offending(target, input) # {}) =>
        /\ output.status = "error"
        /\ \/ output.error.kind = "field_count"
           \/ output.error.allowed \in {f[2] : f \in Offending(target, input)}

-----------------------------------------------------------------------------
(* Claims on SpecStrategy *)

\* the word a model's messages quote
WordOf(m) ==
    CASE m.class = "Noun" -> m.noun
      [] m.class = "Verb" -> m.verb
      [] m.class \in {"Adjective", "Adverb", "Negation"} -> m.word
      [] m.class = "Phrase" -> m.phrase
      [] m.class = "Preposition" -> m.preposition
      [] m.class = "Article" -> m.nominativ
      [] m.class = "KoreanNoun" -> m.hangul
      [] m.class = "RussianNoun" -> m.noun

ServiceReturned == invocations > 0 /\ last.response.kind = "return"
ServiceRaised == invocations > 0 /\ last.response.kind = "raise"

\* C3: when the service returns a non-blank result the callable returns it
\* with the surrounding whitespace removed; when the result is empty or
\* whitespace-only the callable raises MediaGenerationError naming the model's
\* word; the callable never returns "".
C3_StrippedOrRaises ==
    ServiceReturned =>
        /\ strip(last.response.text) # <<>> =>
               /\ last.outcome.status = "ok"
               /\ last.outcome.value = strip(last.response.text)
        /\ strip(last.response.text) = <<>> =>
               /\ last.outcome.status = "error"
               /\ last.outcome.exc = "MediaGenerationError"
               /\ last.outcome.word = WordOf(inst)
        /\ last.outcome.status = "ok" => last.outcome.value # <<>>

\* C4: when the service raises, the caller gets a MediaGenerationError: the
\* service's own MediaGenerationError unchanged, or a new one carrying the
\* model's word and the original error's message; nothing else escapes.
C4_FailuresWrapped ==
    ServiceRaised =>
        /\ last.outcome.status = "error"
        /\ last.outcome.exc = "MediaGenerationError"
        /\ last.outcome.message = last.response.text
        /\ IF last.response.exc = "MediaGenerationError"
           THEN last.outcome.origin = "service"
           ELSE /\ last.outcome.origin = "callable"
                /\ last.outcome.word = WordOf(inst)

\* the outcome of an invocation stems from the answer the service gave to it
FreshOutcome(l) ==
    /\ l.outcome.status = "ok" =>
           /\ l.response.kind = "return"
           /\ strip(l.outcome.value) = strip(l.response.text)
    /\ l.outcome.message # <<>> =>
           /\ l.response.kind = "raise"
           /\ l.outcome.message = l.response.text

\* C5: obtaining a strategy makes no service call, every invocation of a
\* strategy makes exactly one, so the calls made always equal the invocations
\* made, and an invocation's outcome comes from its own call.
C5_OneCallPerInvocation ==
    /\ [](calls = invocations)
    /\ [][/\ strat' # strat => calls' = calls
          /\ invocations' # invocations =>
                 /\ calls' = calls + 1
                 /\ FreshOutcome(last')]_vars

C5_Witness ==
    /\ Cardinality(strat) = 2
    /\ invocations = 2
    /\ calls = 2
    /\ last.strategy = 2

-----------------------------------------------------------------------------
(* Claims on SpecConstruct *)

\* the word or phrase, its translation and its example, per domain model
RequiredLinguistic(c) ==
    CASE c = "Noun" -> {"noun", "english", "example"}
      [] c = "Verb" -> {"verb", "english", "example"}
      [] c \in {"Adjective", "Adverb", "Negation"} -> {"word", "english", "example"}
      [] c = "Phrase" -> {"phrase", "english"}
      [] c = "Preposition" -> {"preposition", "english", "example1"}
      [] c = "Article" -> {"nominativ", "beispiel_nom"}
      [] c = "KoreanNoun" -> {"hangul", "english"}
      [] c = "RussianNoun" -> {"noun", "english"}

NonEmptyTrimmed(v) == v # PyNone /\ strip(v) # <<>>

\* C6: constructing a domain model with an empty or whitespace-only required
\* linguistic field fails.
C6_RequiredFieldsEnforced ==
    (/\ pc = "done"
     /\ target \in DomainModels
     /\ \E f \in RequiredLinguistic(target) : ~NonEmptyTrimmed(input[f]))
        => output.status = "error"

IsVerbConjugation ==
    /\ pc = "done"
    /\ target \in {"VerbConjugationRecord", "VerbConjugationRecordDC"}
    /\ input.classification \in VerbConjugationRecord_valid_classifications
    /\ input.auxiliary \in VerbConjugationRecord_valid_auxiliaries

WeatherVerbs == Strs({"regnen", "schneien", "hageln", "donnern", "blitzen"})

\* C8: with tense present, preterite or subjunctive, a verb that is not
\* impersonal is accepted exactly when all six forms are non-empty after
\* trimming, and an impersonal verb exactly when its sie form is.
C8_SixPersonsUnlessImpersonal ==
    (IsVerbConjugation
     /\ input.tense \in Strs({"present", "preterite", "subjunctive"})) =>
        IF input.infinitive \in WeatherVerbs
        THEN output.status = "ok" <=> NonEmptyTrimmed(input.sie)
        ELSE output.status = "ok" <=>
                 \A f \in {"ich", "du", "er", "wir", "ihr", "sie"} :
                     NonEmptyTrimmed(input[f])

C8_Witness ==
    /\ IsVerbConjugation
    /\ input.tense = Str("preterite")
    /\ input.infinitive = Str("schneien")
    /\ input.ich = <<>>
    /\ input.sie = <<" ", "f">>
    /\ output.status = "ok"

\* C9: with tense imperative a record is accepted exactly when du and ihr are
\* non-empty after trimming; with tense perfect exactly when sie is.
C9_ImperativeAndPerfect ==
    /\ (IsVerbConjugation /\ input.tense = Str("imperative")) =>
           (output.status = "ok" <=>
                NonEmptyTrimmed(input.du) /\ NonEmptyTrimmed(input.ihr))
    /\ (IsVerbConjugation /\ input.tense = Str("perfect")) =>
           (output.status = "ok" <=> NonEmptyTrimmed(input.sie))

C9_Witness ==
    /\ IsVerbConjugation
    /\ target = "VerbConjugationRecordDC"
    /\ input.tense = Str("imperative")
    /\ input.ich = <<>>
    /\ input.sie = <<" ">>
    /\ input.du = <<" ", "f">>
    /\ output.status = "ok"

\* the syllables among HangulWords' last symbols that end in a consonant
CodaSyllables == {"U+AC01", "U+CC45", "U+D7A3"}

HasCoda(hangul) == hangul # <<>> /\ hangul[Len(hangul)] \in CodaSyllables

Supplied(v) == v # PyNone /\ v # <<>>

Derived(supplied, hangul, with_coda, without_coda) ==
    IF Supplied(supplied) THEN supplied
    ELSE hangul \o <<IF HasCoda(hangul) THEN with_coda ELSE without_coda>>

\* C10: a constructed Korean noun, record or domain model, keeps every
\* supplied particle form and sets each missing one to hangul plus U+C740 /
\* U+C774 / U+C744 after a coda, U+B294 / U+AC00 / U+B97C otherwise, and the
\* possessive to hangul plus U+C758; record and model derive the same forms.
C10_ParticlesDerived ==
    (pc = "done" /\ target \in {"KoreanNounRecord", "KoreanNoun"}
     /\ output.status = "ok") =>
        /\ output.record.topic_particle =
               Derived(input.topic_particle, input.hangul, "U+C740", "U+B294")
        /\ output.record.subject_particle =
               Derived(input.subject_particle, input.hangul, "U+C774", "U+AC00")
        /\ output.record.object_particle =
               Derived(input.object_particle, input.hangul, "U+C744", "U+B97C")
        /\ output.record.possessive_form =
               Derived(input.possessive_form, input.hangul, "U+C758", "U+C758")
        /\ KoreanNoun_generate_topic_particle(input.hangul)
               = KoreanNounRecord_generate_topic_particle(input.hangul)
        /\ KoreanNoun_generate_subject_particle(input.hangul)
               = KoreanNounRecord_generate_subject_particle(input.hangul)
        /\ KoreanNoun_generate_object_particle(input.hangul)
               = KoreanNounRecord_generate_object_particle(input.hangul)

C10_Witness ==
    /\ pc = "done"
    /\ target = "KoreanNoun"
    /\ input.hangul = <<"U+ACFC", "U+CC45">>
    /\ input.topic_particle = PyNone
    /\ input.subject_particle = <<"p">>
    /\ output.status = "ok"
    /\ output.record.topic_particle = <<"U+ACFC", "U+CC45", "U+C740">>
    /\ output.record.subject_particle = <<"p">>

-----------------------------------------------------------------------------
(* Field counts *)

\* the variants that take exactly their field count
ExactCount(c) ==
    CASE c = "VerbRecord" -> 11
      [] c = "PhraseRecord" -> 4
      [] c = "PrepositionRecord" -> 5
      [] c = "ArticleRecord" -> 9
      [] c = "UnifiedArticleRecord" -> 10
      [] c = "KoreanNounRecord" -> 9

ExactVariants ==
    {"VerbRecord", "PhraseRecord", "PrepositionRecord", "ArticleRecord",
     "UnifiedArticleRecord", "KoreanNounRecord"}

\* the variants with optional trailing fields, and their minimum
TrailingVariants ==
    {"AdjectiveRecord", "VerbConjugationRecord", "VerbConjugationRecordDC",
     "VerbImperativeRecord", "RussianNounRecord"}

TrailingMinimum(c) ==
    CASE c = "AdjectiveRecord" -> 4
      [] c \in {"VerbConjugationRecord", "VerbConjugationRecordDC"} -> 12
      [] c = "VerbImperativeRecord" -> 7
      [] c = "RussianNounRecord" -> 3

FieldCountError == output.status = "error" /\ output.error.kind = "field_count"

\* the declared field names the array was too short to supply
MissingNames ==
    {get_field_names(target)[k] :
        k \in {j \in 1..Len(get_field_names(target)) : j > Len(input)}}

ExactCountsEnforced ==
    (pc = "done" /\ target \in ExactVariants
     /\ Len(input) # ExactCount(target)) => FieldCountError

TrailingMinimumEnforced ==
    (pc = "done" /\ target \in TrailingVariants) =>
        (FieldCountError <=> Len(input) < TrailingMinimum(target))

\* C13: an exact-count variant rejects every array of another length, longer
\* ones included; a variant with optional trailing fields raises the
\* field-count error only below its minimum and sets every declared field the
\* array did not supply to the empty str.
C13_FieldCounts ==
    /\ ExactCountsEnforced
    /\ TrailingMinimumEnforced
    /\ (Returned /\ target \in TrailingVariants) =>
           \A name \in MissingNames : to_dict(output.record)[name] = <<>>

\* C13 as amended: the same, except that RussianNounRecord sets a missing
\* animacy to its declared default "inanimate".
C13_FieldCountsAnimacyDefault ==
    /\ ExactCountsEnforced
    /\ TrailingMinimumEnforced
    /\ (Returned /\ target \in TrailingVariants) =>
           \A name \in MissingNames :
               to_dict(output.record)[name] =
                   (IF target = "RussianNounRecord" /\ name = "animacy"
                    THEN Str("inanimate") ELSE <<>>)

C13_Witness ==
    /\ Returned
    /\ target = "RussianNounRecord"
    /\ Len(input) = 4
    /\ output.record.animacy = Str("inanimate")
    /\ output.record.example = <<>>
    /\ output.record.plural_genitive = <<>>

-----------------------------------------------------------------------------

(* Keys of to_dict() *)

\* the nullable media fields each variant declares
MediaFields(c) ==
    CASE c \in {"NounRecord", "AdjectiveRecord", "AdverbRecord", "VerbRecord",
                "VerbConjugationRecord", "VerbConjugationRecordDC"} ->
             {"image", "word_audio", "example_audio"}
      [] c = "PhraseRecord" -> {"phrase_audio", "image"}
      [] c = "PrepositionRecord" ->
             {"word_audio", "example1_audio", "example2_audio", "image"}
      [] c = "ArticleRecord" -> {"article_audio", "example_audio"}
      [] c = "UnifiedArticleRecord" -> {"article_audio", "example_audio", "image"}
      [] c = "VerbImperativeRecord" -> {"word_audio", "image"}
      [] c \in {"KoreanNounRecord", "RussianNounRecord"} -> {}

\* the fields a variant derives on construction and takes from no CSV column
DerivedFields(c) ==
    CASE c = "KoreanNounRecord" ->
             {"topic_particle", "subject_particle", "object_particle",
              "possessive_form", "counter_example"}
      [] c = "RussianNounRecord" -> {"nominative", "accusative"}
      [] OTHER -> {}

DeclaredNames(c) == {get_field_names(c)[i] : i \in 1..Len(get_field_names(c))}

\* C14: the keys of to_dict() are exactly the names of get_field_names() and
\* the media fields that are populated (not None); a media field that is None
\* contributes no key.
C14_KeysDeclaredPlusPopulated ==
    Returned =>
        LET d == to_dict(output.record)
        IN  DOMAIN d =
                DeclaredNames(target)
                \cup {f \in MediaFields(target) : output.record[f] # PyNone}

\* C14 as amended: the keys of to_dict() are exactly the names of
\* get_field_names(), every media field of the variant whether populated or
\* not (an unpopulated one is bound to None), and the fields the Korean and
\* Russian noun records derive on construction.
C14_KeysDeclaredMediaDerived ==
    Returned =>
        LET d == to_dict(output.record)
        IN  /\ DOMAIN d =
                   DeclaredNames(target) \cup MediaFields(target)
                       \cup DerivedFields(target)
            /\ \A f \in MediaFields(target) : d[f] = output.record[f]

C14_Witness ==
    /\ Returned
    /\ target = "VerbImperativeRecord"
    /\ output.record.word_audio = Str("w")
    /\ output.record.image = PyNone
    /\ {"word_audio", "image"} \subseteq DOMAIN to_dict(output.record)

-----------------------------------------------------------------------------

(* The separable flag *)

\* the spellings of "true" in any letter case that occur among the inputs
TrueSpellings == {"true", "TRUE", "True", "tRuE"}

\* the spellings of "1" and "yes" in any letter case among the inputs
OneYesSpellings == {"1", "yes", "YES", "Yes"}

\* the CSV column (1-based) holding the separable flag
SeparableColumn(c) == IF c = "VerbRecord" THEN 11 ELSE 4

\* C15: VerbRecord.from_csv_fields sets separable to True exactly when the
\* 11th field, stripped, is "true" in some letter case, and to False for
\* every other value.
C15_VerbSeparableTrueOnly ==
    (Returned /\ target = "VerbRecord") =>
        /\ output.record.separable \in {PyTrue, PyFalse}
        /\ output.record.separable = PyTrue
               <=> strip(input[11]) \in Strs(TrueSpellings)

C15_Witness ==
    /\ Returned
    /\ target = "VerbRecord"
    /\ input[11] = <<" ", "True", " ">>
    /\ output.record.separable = PyTrue

C15_WitnessFalse ==
    /\ Returned
    /\ target = "VerbRecord"
    /\ input[11] = Str("yes")
    /\ output.record.separable = PyFalse

\* C16: the separable flag parsed by VerbRecord and by VerbConjugationRecord
\* is True when the stripped field is "true", "1" or "yes" in any letter
\* case, and False for every other value.
C16_SeparableTrueOneYes ==
    (Returned /\ target \in {"VerbRecord", "VerbConjugationRecord",
                             "VerbConjugationRecordDC"}) =>
        /\ output.record.separable \in {PyTrue, PyFalse}
        /\ output.record.separable = PyTrue
               <=> strip(input[SeparableColumn(target)])
                       \in Strs(TrueSpellings \cup OneYesSpellings)

\* the part of C16 that VerbConjugationRecord, in both implementations, meets
C16_ConjugationSeparable ==
    (Returned /\ target \in {"VerbConjugationRecord", "VerbConjugationRecordDC"}) =>
        (output.record.separable = PyTrue
             <=> strip(input[4]) \in Strs(TrueSpellings \cup OneYesSpellings))

-----------------------------------------------------------------------------

(* Korean counter example *)

IsKoreanNoun ==
    /\ pc = "done"
    /\ target \in {"KoreanNounRecord", "KoreanNoun"}
    /\ output.status = "ok"

\* "{hangul} {number-word} {primary_counter}": U+C138 for the category
\* "object", U+B2E4 U+C12F for every other category
SynthesizedCounterExample ==
    input.hangul \o <<" ">>
        \o (IF input.semantic_category = Str("object")
            THEN <<"U+C138">> ELSE <<"U+B2E4", "U+C12F">>)
        \o <<" ">> \o input.primary_counter

ExpectedCounterExample ==
    IF input.counter_example # <<>> THEN input.counter_example
    ELSE IF input.primary_counter # <<>> THEN SynthesizedCounterExample
    ELSE <<>>

\* C17: a constructed Korean noun, record or domain model, keeps a supplied
\* counter example; with none supplied and a non-empty primary counter its
\* counter example is "{hangul} {number-word} {primary_counter}"; with an
\* empty primary counter none is synthesized.
C17_CounterExampleSynthesized ==
    IsKoreanNoun => output.record.counter_example = ExpectedCounterExample

\* the part of C17 that the domain model KoreanNoun meets
C17_ModelCounterExample ==
    (IsKoreanNoun /\ target = "KoreanNoun") =>
        output.record.counter_example = ExpectedCounterExample

C17_ModelWitness ==
    /\ IsKoreanNoun
    /\ target = "KoreanNoun"
    /\ input.counter_example = <<>>
    /\ input.semantic_category = Str("object")
    /\ output.record.counter_example =
           <<"U+CC45", " ", "U+C138", " ", "U+AC1C">>

-----------------------------------------------------------------------------

(* Russian accusative *)

IsRussianNoun ==
    /\ pc = "done"
    /\ target \in {"RussianNounRecord", "RussianNoun"}
    /\ output.status = "ok"

\* C11: a constructed Russian noun, record or domain model, keeps a supplied
\* accusative; with none supplied the accusative of an animate noun is the
\* genitive, or the base noun when the genitive is empty, and the accusative
\* of an inanimate noun is the nominative, which is the base noun when no
\* nominative was supplied.
C11_AccusativeByAnimacy ==
    IsRussianNoun =>
        /\ input.accusative # <<>> => output.record.accusative = input.accusative
        /\ (input.accusative = <<>> /\ input.animacy = Str("animate")) =>
               output.record.accusative =
                   (IF input.genitive # <<>> THEN input.genitive ELSE input.noun)
        /\ (input.accusative = <<>> /\ input.animacy = Str("inanimate")) =>
               /\ output.record.accusative = output.record.nominative
               /\ input.nominative = <<>> => output.record.nominative = input.noun
               /\ input.nominative # <<>> =>
                      output.record.nominative = input.nominative

C11_Witness ==
    /\ IsRussianNoun
    /\ target = "RussianNounRecord"
    /\ input.accusative = <<>>
    /\ input.animacy = Str("animate")
    /\ input.genitive = <<"g">>
    /\ input.nominative = <<"n">>
    /\ output.record.accusative = <<"g">>

-----------------------------------------------------------------------------
(* Claims on SpecFactory *)

SupportedTags ==
    {"noun", "adjective", "adverb", "negation", "verb", "phrase", "preposition",
     "verb_conjugation", "verb_imperative", "article", "indefinite_article",
     "negative_article", "unified_article"}

\* C12: create(tag, fields) raises the unknown-type error, listing all thirteen
\* supported tags and calling no parser, exactly when the tag is not
\* supported; otherwise it calls the parser of one record class, whose record
\* type is the tag, once, and returns that parser's record or raises that
\* parser's error.
C12_FactoryDispatch ==
    pc = "done" /\ target = "GermanRecordFactory" =>
        /\ SupportedTags =
               {GermanRecordFactory_get_supported_types[i] :
                   i \in 1..Len(GermanRecordFactory_get_supported_types)}
        /\ input.model_type \notin SupportedTags =>
               /\ output.status = "error"
               /\ output.error.kind = "unknown_type"
               /\ output.error.allowed = Strs(SupportedTags)
               /\ parsed = <<>>
        /\ input.model_type \in SupportedTags =>
               /\ output.error.kind # "unknown_type"
               /\ Len(parsed) = 1
               /\ get_record_type(parsed[1]) = input.model_type
               /\ output \in from_csv_fields_outcomes(parsed[1], input.fields)
               /\ output.status = "ok" =>
                      get_record_type(output.record.class) = input.model_type

C12_Witness ==
    /\ pc = "done"
    /\ target = "GermanRecordFactory"
    /\ input.model_type = "verb_conjugation"
    /\ parsed = <<"VerbConjugationRecord">>
    /\ output.status = "ok"
    /\ output.record.class = "VerbConjugationRecord"

C12_WitnessUnknown ==
    /\ pc = "done"
    /\ input.model_type = "unknown_type"
    /\ output.error.kind = "unknown_type"

-----------------------------------------------------------------------------
(* Claims on SpecChecks *)

IrregularComparative(w) ==
    CASE w = W_gut -> W_besser
      [] w = W_viel -> W_mehr
      [] w = W_gern -> W_lieber
      [] w = W_hoch -> W_hoeher
      [] w = W_nah -> W_naeher

ValidatedComparative ==
    target = "Adjective" /\ input.method = "validate_comparative"

\* C18: validate_comparative returns True for gut / besser, for schoen /
\* schoener and for alt / aelter; for a word of the irregular table (gut, viel,
\* gern, hoch, nah) it returns True exactly when the comparative equals the
\* table's value, whatever the -er rule would say.
C18_IrregularComparatives ==
    ValidatedComparative =>
        /\ (inst.word = W_gut /\ inst.comparative = W_besser) => output.value
        /\ (inst.word = W_schoen /\ inst.comparative = W_schoener) => output.value
        /\ (inst.word = W_alt /\ inst.comparative = W_aelter) => output.value
        /\ inst.word \in {W_gut, W_viel, W_gern, W_hoch, W_nah} =>
               (output.value <=> inst.comparative = IrregularComparative(inst.word))

\* gut / guter, which the -er rule alone would accept, is rejected
C18_Witness ==
    /\ ValidatedComparative
    /\ inst.word = W_gut
    /\ inst.comparative = W_gut \o <<"e", "r">>
    /\ output.value = FALSE

C18_WitnessRegular ==
    /\ ValidatedComparative
    /\ inst.word = W_alt
    /\ inst.comparative = W_aelter
    /\ output.value = TRUE

\* s without one trailing "e"
WithoutTrailingE(s) == IF endswith(s, <<"e">>) THEN slice(s, 0, 1) ELSE s

\* base with a single occurrence of a, o or u replaced by its umlaut
SingleUmlauts(base) ==
    {[base EXCEPT ![i] = umlaut_pairs[k][2]] :
        <<i, k>> \in {p \in (1..Len(base)) \X (1..Len(umlaut_pairs)) :
                         base[p[1]] = umlaut_pairs[p[2]][1]}}

RegularBases(word) ==
    {WithoutTrailingE(word)} \cup SingleUmlauts(WithoutTrailingE(word))

\* C22: for a word outside the irregular table validate_comparative returns
\* True exactly when the comparative ends in "er" and the rest equals the
\* word without its trailing "e" or that base with a single a, o or u
\* umlauted; a base with the same vowel twice is accepted when only one of the
\* two carries the umlaut.
C22_ComparativeSingleUmlaut ==
    (ValidatedComparative /\ inst.word \notin DOMAIN Adjective_irregular_comparatives) =>
        (output.value <=>
            /\ endswith(inst.comparative, <<"e", "r">>)
            /\ slice(inst.comparative, 0, 2) \in RegularBases(inst.word))

ValidatedSuperlative ==
    target = "Adjective" /\ input.method = "validate_superlative"

\* the stem of "am <stem>sten", as a set of at most one text
SuperlativeStems(s) ==
    {t \in {SubSeq(s, 4, Len(s) - 4)} :
        s = <<"a", "m", " ">> \o t \o <<"s", "t", "e", "n">>}

\* the word without its trailing "e", and that base after each of the three
\* vowel substitutions
UmlautBases(word) ==
    {WithoutTrailingE(word)}
    \cup {replace(WithoutTrailingE(word), umlaut_pairs[k][1], umlaut_pairs[k][2]) :
             k \in 1..Len(umlaut_pairs)}

\* C23: validate_superlative returns True for an empty superlative; for gut,
\* viel, gern, hoch and nah exactly when the superlative is the table's
\* value; for any other word exactly when the superlative is "am " + stem +
\* "sten" and the stem, one trailing "e" dropped, is the word without its
\* trailing "e" or that base after an a, o or u umlaut substitution.
C23_SuperlativeRule ==
    ValidatedSuperlative =>
        (output.value <=>
            \/ inst.superlative = <<>>
            \/ /\ inst.word \in {W_gut, W_viel, W_gern, W_hoch, W_nah}
               /\ inst.superlative = Adjective_irregular_superlatives[inst.word]
            \/ /\ inst.word \notin {W_gut, W_viel, W_gern, W_hoch, W_nah}
               /\ \E stem \in SuperlativeStems(inst.superlative) :
                      WithoutTrailingE(stem) \in UmlautBases(inst.word))

\* alt / am aeltesten: the -esten ending together with the umlaut
C23_Witness ==
    /\ ValidatedSuperlative
    /\ inst.word = W_alt
    /\ inst.superlative = <<"a", "m", " ", "U+00E4", "l", "t", "e", "s", "t", "e", "n">>
    /\ output.value = TRUE

\* gut / am gutsten, regular in form, is rejected by the table
C23_WitnessIrregular ==
    /\ ValidatedSuperlative
    /\ inst.word = W_gut
    /\ inst.superlative = <<"a", "m", " ", "g", "u", "t", "s", "t", "e", "n">>
    /\ output.value = FALSE

-----------------------------------------------------------------------------
(* Position of the negation *)

ValidatedPosition == target = "Negation" /\ input.method = "validate_position"

\* the example without trailing sentence punctuation, split and lower-cased
ExampleTokens(m) ==
    LET words == split(rstrip_chars(m.example, {".", "!", "?"}))
    IN  [i \in 1..Len(words) |-> lower(words[i])]

NegationTokens(m) == split(lower(m.word))

\* the 0-based indexes at which the whole token sequence of the negation
\* stands in the example
Occurrences(m) ==
    LET toks == ExampleTokens(m)
        parts == NegationTokens(m)
    IN  {p \in 0..(Len(toks) - Len(parts)) :
            \A i \in 1..Len(parts) : toks[p + i] = parts[i]}

\* the number of tokens of the example equal to the negation's first token
FirstTokenCount(m) ==
    Cardinality({i \in 1..Len(ExampleTokens(m)) :
                    ExampleTokens(m)[i] = NegationTokens(m)[1]})

TypeRule(type, p, n) ==
    CASE type = Str("general") -> p > 0
      [] type = Str("article") -> p < n - 1
      [] type = Str("pronoun") -> TRUE
      [] type = Str("temporal") -> p < n - 1
      [] type = Str("spatial") -> p > 0
      [] type = Str("correlative") -> p < n - 2
      [] type = Str("intensifier") -> TRUE

\* C24: validate_position returns False when the negation's token sequence is
\* not in the tokenized example; when the sequence's first token occurs once
\* and the sequence starts at index p of n tokens, it returns True exactly
\* when the rule of the type holds: general p > 0, article p < n-1, pronoun
\* always, temporal p < n-1, spatial p > 0, correlative p < n-2, intensifier
\* always.
C24_PositionRules ==
    ValidatedPosition =>
        /\ Occurrences(inst) = {} => output.value = FALSE
        /\ (FirstTokenCount(inst) = 1 /\ Occurrences(inst) # {}) =>
               (output.value <=>
                   \A p \in Occurrences(inst) :
                       TypeRule(inst.type, p, Len(ExampleTokens(inst))))

\* a correlative with exactly one token after it is rejected
C24_Witness ==
    /\ ValidatedPosition
    /\ inst.type = Str("correlative")
    /\ FirstTokenCount(inst) = 1
    /\ Occurrences(inst) = {Len(ExampleTokens(inst)) - 2}
    /\ output.value = FALSE

\* a two-token intensifier that closes the sentence is accepted
C24_WitnessIntensifier ==
    /\ ValidatedPosition
    /\ inst.type = Str("intensifier")
    /\ Len(NegationTokens(inst)) = 2
    /\ Occurrences(inst) = {Len(ExampleTokens(inst)) - 2}
    /\ FirstTokenCount(inst) = 1
    /\ output.value = TRUE

\* the negation has several tokens, its first token stands at an index where
\* the others do not follow, and the whole sequence stands at a later index
\* that satisfies the rule of the type
LaterOccurrence(m) ==
    /\ Len(NegationTokens(m)) > 1
    /\ \E q \in 0..(Len(ExampleTokens(m)) - 1), p \in Occurrences(m) :
           /\ q < p
           /\ ExampleTokens(m)[q + 1] = NegationTokens(m)[1]
           /\ q \notin Occurrences(m)
           /\ TypeRule(m.type, p, Len(ExampleTokens(m)))

\* C30: validate_position finds a multi-word negation wherever its tokens
\* stand together in the example: when the first token also stands earlier
\* without the others after it and the whole sequence stands later at an
\* index that satisfies the rule of the type, the result is True.
C30_SequenceFoundAnywhere ==
    (ValidatedPosition /\ LaterOccurrence(inst)) => output.value = TRUE

-----------------------------------------------------------------------------
(* Category of a phrase *)

Categorized == target = "Phrase" /\ input.method = "get_phrase_category"

\* keyword occurs in the lower-cased context of the phrase
InContext(m, keyword) == contains(lower(m.context), keyword)

GreetingKeyword(m) ==
    \E k \in Phrase_greeting_indicators :
        contains(lower(m.phrase), k) \/ InContext(m, k)

FarewellKeyword(m) ==
    \E k \in Phrase_farewell_indicators :
        contains(lower(m.phrase), k) \/ InContext(m, k)

\* C25: a phrase that is neither greeting nor farewell and whose context
\* contains "informal" and not "polite" has the category "informal", not
\* "formal".
C25_InformalContext ==
    (/\ Categorized
     /\ ~GreetingKeyword(inst)
     /\ ~FarewellKeyword(inst)
     /\ InContext(inst, <<"i", "n", "f", "o", "r", "m", "a", "l">>)
     /\ ~InContext(inst, <<"p", "o", "l", "i", "t", "e">>)) =>
        output.value = Str("informal")

\* C26: get_phrase_category returns "greeting" when a greeting keyword is in
\* the phrase or the context, a farewell keyword or not; otherwise "farewell"
\* when a farewell keyword is in the phrase or the context; otherwise
\* "formal" or "informal" when the context has one of their keywords;
\* otherwise "general"; and nothing but these five.
C26_CategoryOrder ==
    Categorized =>
        /\ output.value \in {Str("greeting"), Str("farewell"), Str("formal"),
                             Str("informal"), Str("general")}
        /\ output.value = Str("greeting") <=> GreetingKeyword(inst)
        /\ output.value = Str("farewell") <=>
               (~GreetingKeyword(inst) /\ FarewellKeyword(inst))
        /\ output.value \in {Str("formal"), Str("informal")} <=>
               /\ ~GreetingKeyword(inst)
               /\ ~FarewellKeyword(inst)
               /\ \E k \in {<<"p", "o", "l", "i", "t", "e">>,
                             <<"f", "o", "r", "m", "a", "l">>,
                             <<"i", "n", "f", "o", "r", "m", "a", "l">>,
                             <<"c", "a", "s", "u", "a", "l">>} : InContext(inst, k)

\* a greeting said with a farewell in its context is a greeting
C26_Witness ==
    /\ Categorized
    /\ GreetingKeyword(inst)
    /\ FarewellKeyword(inst)
    /\ output.value = Str("greeting")

C26_WitnessGeneral ==
    /\ Categorized
    /\ output.value = Str("general")

-----------------------------------------------------------------------------
(* Action type of a verb *)

Classified ==
    target = "Verb" /\ input.method = "_get_action_visualization_strategy"

\* the whitespace-separated tokens of the lower-cased English gloss
GlossTokens(m) ==
    {split(lower(m.english))[i] : i \in 1..Len(split(lower(m.english)))}

\* the gloss shares a whole token with the k-th verb set
Shares(m, k) == GlossTokens(m) \cap Verb_strategies[k][1] # {}

\* C27: the classifier lower-cases the English gloss, splits it on whitespace
\* and returns the strategy of the first of the sets motion, work,
\* communication, state that shares a whole token with the gloss; a gloss
\* sharing tokens with several sets gets the earliest set's strategy, a gloss
\* sharing none gets the generic action strategy.
C27_FirstSharedSet ==
    /\ <<"g", "o">> \in Verb_strategies[1][1]
    /\ <<"w", "o", "r", "k">> \in Verb_strategies[2][1]
    /\ <<"s", "p", "e", "a", "k">> \in Verb_strategies[3][1]
    /\ <<"f", "e", "e", "l">> \in Verb_strategies[4][1]
    /\ Classified =>
           /\ \A k \in 1..4 :
                  (Shares(inst, k) /\ \A j \in 1..(k - 1) : ~Shares(inst, j)) =>
                      output.value = Verb_strategies[k][2]
           /\ (\A k \in 1..4 : ~Shares(inst, k)) =>
                  output.value = Str("Focus on the physical action being performed.")

\* "to have to work" has a state token before its work token and is an
\* activity
C27_Witness ==
    /\ Classified
    /\ Shares(inst, 2)
    /\ Shares(inst, 4)
    /\ ~Shares(inst, 1)
    /\ output.value =
           Str("Focus on people actively performing the task or activity.")

\* "going" holds "go" but shares no whole token
C27_WitnessGeneric ==
    /\ Classified
    /\ inst.english = <<"g", "o", "i", "n", "g">>
    /\ output.value = Str("Focus on the physical action being performed.")

-----------------------------------------------------------------------------
(* Claims on SpecCoda *)

CodaTested == input.method = "_has_final_consonant"

\* the code point of the last character, 0 for the empty string
LastCodePoint(hangul) ==
    IF hangul = <<>> THEN 0 ELSE Ord(hangul[Len(hangul)])

\* C28: in the record and in the model alike the coda test returns True
\* exactly when the string is non-empty and the code point c of its last
\* character has 0xAC00 <= c <= 0xD7A3 and (c - 0xAC00) mod 28 # 0; it is
\* False for the empty string and for a last character outside the block,
\* and only the last character counts.
C28_CodaOfLastSyllable ==
    CodaTested =>
        LET c == LastCodePoint(inst.hangul)
        IN  /\ output.value <=>
                   /\ inst.hangul # <<>>
                   /\ c \in 44032..55203
                   /\ (c - 44032) % 28 # 0
            /\ inst.hangul = <<>> => output.value = FALSE
            /\ (inst.hangul # <<>> /\ c \notin 44032..55203) =>
                   output.value = FALSE

\* U+D7A3, the last syllable of the block, after a syllable without coda
C28_Witness ==
    /\ CodaTested
    /\ target = "KoreanNounRecord"
    /\ inst.hangul = <<"U+ACFC", "U+D7A3">>
    /\ output.value = TRUE

\* the model's test on a syllable without coda after one with coda
C28_WitnessModel ==
    /\ CodaTested
    /\ target = "KoreanNoun"
    /\ inst.hangul = <<"U+CC45", "U+ACFC">>
    /\ output.value = FALSE

-----------------------------------------------------------------------------
(* Claims on SpecRegistry *)

\* the bindings a registry holds, as a set of <<code, class>> pairs
Held(langs) == {<<langs[i][1], langs[i][2]>> : i \in 1..Len(langs)}

HeldCodes(langs) == {langs[i][1] : i \in 1..Len(langs)}

\* no code is held twice
OneBindingPerCode(langs) ==
    \A i, j \in 1..Len(langs) : langs[i][1] = langs[j][1] => i = j

\* what the operation that has just returned did to the registry, and what it
\* returned
RegistryStep ==
    /\ input'.method = "register" =>
           Held(languages') =
               {p \in Held(languages) : p[1] # input'.language_code}
                   \cup {<<input'.language_code, input'.language_class>>}
    /\ input'.method = "clear" => Held(languages') = {}
    /\ input'.method \in {"get", "list_available"} => languages' = languages
    /\ (input'.method = "get"
        /\ input'.language_code \in HeldCodes(languages)) =>
           /\ output'.status = "ok"
           /\ <<input'.language_code, output'.value.class>> \in Held(languages)
           /\ output'.value.id \notin 1..created
           /\ created' = created + 1
    /\ (input'.method = "get"
        /\ input'.language_code \notin HeldCodes(languages)) =>
           /\ output'.status = "error"
           /\ output'.error.kind = "not_registered"
           /\ created' = created
    /\ input'.method = "list_available" =>
           /\ {output'.value[i] : i \in 1..Len(output'.value)}
                  = HeldCodes(languages)
           /\ Len(output'.value) = Cardinality(HeldCodes(languages))

\* C19: the registry starts empty and holds one class per code; register binds
\* the code to the given class and touches no other binding, clear empties
\* the registry, get and list_available leave it as it is; get returns a new
\* instance of the bound class, or the 'not registered' error for a code not
\* held; list_available returns the held codes, each once.  Hence the
\* registry holds exactly the codes registered since the last clear, each
\* bound to the class registered last.
C19_RegistryTracksRegistrations ==
    /\ languages = <<>>
    /\ [](OneBindingPerCode(languages))
    /\ [][RegistryStep]_vars

\* a code registered twice is bound once, and get has built an instance of
\* one of two held classes
C19_Witness ==
    /\ target = "LanguageRegistry"
    /\ Held(languages) = {<<"de", "FakeLang">>, <<"ko", "GermanLanguage">>}
    /\ input.method = "get"
    /\ input.language_code = "de"
    /\ output.status = "ok"
    /\ output.value = [class |-> "FakeLang", id |-> 2]

-----------------------------------------------------------------------------
(* The checks leave the model as it was *)

LinguisticChecks ==
    {"validate_comparative", "validate_superlative", "validate_example",
     "validate_position", "is_concrete", "is_greeting", "is_farewell",
     "get_phrase_category", "_get_action_visualization_strategy"}

\* a step in which one of the checks returns: every field of the model is as
\* before, and a check that was also the previous call returns what it
\* returned then
CheckStep ==
    input'.method \in LinguisticChecks =>
        /\ inst' = inst
        /\ input.method = input'.method => output' = output

\* C20: validate_comparative, validate_superlative, validate_example,
\* validate_position, is_concrete, is_greeting, is_farewell,
\* get_phrase_category and the verb's action-type classifier change no field
\* of the constructed model they are called on, and a check called again on
\* the unchanged model returns the same value.
C20_ChecksChangeNoField == [][CheckStep]_vars

\* validate_example has rejected an example that has blanks around it and
\* the blanks are still there
C20_Witness ==
    /\ target = "Negation"
    /\ input.method = "validate_example"
    /\ inst.example # strip(inst.example)
    /\ output = Value(FALSE)

\* the verb's classifier has chosen the first matching strategy for an
\* English gloss with a motion verb and a communication verb
C20_WitnessVerb ==
    /\ target = "Verb"
    /\ input.method = "_get_action_visualization_strategy"
    /\ Len(split(inst.english)) = 4
    /\ output = Value(Str("Focus on movement and direction."))

-----------------------------------------------------------------------------
(* The two VerbConjugationRecord implementations *)

\* both accept or both reject; accepted, the records have the same to_dict();
\* rejected, the same rule has rejected (the check and the field it names)
SameOutcome(a, b) ==
    /\ a.status = b.status
    /\ a.status = "ok" => to_dict(a.record) = to_dict(b.record)
    /\ a.status = "error" =>
           /\ a.exc = b.exc
           /\ a.error.kind = b.error.kind
           /\ a.error.field = b.error.field

\* C29: on arrays of strings from_csv_fields of verb_conjugation_record.py
\* and of verb_conjugation_record_dataclass.py accept the same arrays, an
\* accepted array gives records with the same to_dict() output, and a
\* rejected array is rejected by both for the same rule.
C29_ImplementationsAgree ==
    pc = "done" =>
        /\ target = "VerbConjugationRecord" =>
               SameOutcome(output, VerbConjugationRecordDC_from_csv_fields(input))
        /\ target = "VerbConjugationRecordDC" =>
               SameOutcome(output, VerbConjugationRecord_from_csv_fields(input))

\* a twelve-field array without the example column is accepted, with forms
\* that had blanks around them
C29_Witness ==
    /\ pc = "done"
    /\ target = "VerbConjugationRecord"
    /\ Len(input) = 12
    /\ \E k \in 7..12 : input[k] # strip(input[k])
    /\ output.status = "ok"
    /\ VerbConjugationRecordDC_from_csv_fields(input).status = "ok"

\* an array the dataclass version rejects for tense completeness
C29_WitnessRejected ==
    /\ pc = "done"
    /\ target = "VerbConjugationRecordDC"
    /\ output.status = "error"
    /\ output.error.kind = "requires_all_persons"

-----------------------------------------------------------------------------
(* Callables of different instances, interleaved *)

\* callable s has ended an invocation in which the service answered last[s]
Ended(s) == pc[s] = "idle" /\ last[s] # NoResponse

\* C21: strategies obtained from different instances share no mutable state:
\* under every interleaving of the steps of their invocations a callable's
\* outcome (text or MediaGenerationError) is the outcome of running it alone
\* with the same answer of the service, and no invocation changes a field of
\* an instance.
C21_InterleavedAsAlone ==
    /\ [](\A s \in Callables :
             Ended(s) => output[s] = run_alone(inst[s], last[s]))
    /\ [][inst' = inst]_vars

\* the noun's callable began first and is still waiting for the service when
\* the phrase's callable, begun second, has returned its text
C21_Witness ==
    /\ target = <<"Noun", "Phrase">>
    /\ pc[1] = "built"
    /\ input[1].began = 1
    /\ input[2].began = 2
    /\ Ended(2)
    /\ output[2] = StrategyReturns(<<"q">>)

\* both have answers in hand at once, a text for one and an error of the
\* service for the other, and the noun's callable ends with its own
C21_WitnessBoth ==
    /\ target = <<"Noun", "Phrase">>
    /\ Ended(1)
    /\ input[1].began = 1
    /\ output[1].status = "ok"
    /\ pc[2] = "answered"
    /\ input[2].began = 2
    /\ last[2].kind = "raise"

====
